---------------------------- MODULE Spec2Model ----------------------------
(***************************************************************************)
(* Model of the MinIO artifact cache (airflow/plugins/minio_cache.py) and  *)
(* of the boston_housing_cached DAG that uses it.                          *)
(*                                                                         *)
(* Strings and byte strings are sequences of one-character strings, so     *)
(* that formatting, hashing and parsing are computed character by          *)
(* character.                                                              *)
(***************************************************************************)
EXTENDS Integers, Sequences, FiniteSets, TLC

(***************************************************************************)
(* Characters and their code points (str.encode() of ASCII text).          *)
(***************************************************************************)
Ascii ==
  <<" ", "!", "\"", "#", "$", "%", "&", "'", "(", ")", "*", "+", ",", "-",
    ".", "/", "0", "1", "2", "3", "4", "5", "6", "7", "8", "9", ":", ";",
    "<", "=", ">", "?", "@", "A", "B", "C", "D", "E", "F", "G", "H", "I",
    "J", "K", "L", "M", "N", "O", "P", "Q", "R", "S", "T", "U", "V", "W",
    "X", "Y", "Z", "[", "\\", "]", "^", "_", "x60", "a", "b", "c", "d", "e",
    "f", "g", "h", "i", "j", "k", "l", "m", "n", "o", "p", "q", "r", "s",
    "t", "u", "v", "w", "x", "y", "z", "{", "|", "}", "~">>

Ord(c) ==
  IF c = "\n" THEN 10
  ELSE 31 + (CHOOSE i \in 1..Len(Ascii) : Ascii[i] = c)

encode(s) == [i \in 1..Len(s) |-> Ord(s[i])]

HexDigits ==
  <<"0", "1", "2", "3", "4", "5", "6", "7", "8", "9",
    "a", "b", "c", "d", "e", "f">>

Digits == <<"0", "1", "2", "3", "4", "5", "6", "7", "8", "9">>

(***************************************************************************)
(* hashlib.md5 (RFC 1321).  A 32-bit word is the pair <<high half, low     *)
(* half>> of 16-bit values, so that every sum stays below 2^31.            *)
(***************************************************************************)
RECURSIVE And16(_, _)
And16(x, y) ==
  IF x = 0 \/ y = 0 THEN 0
  ELSE (x % 2) * (y % 2) + 2 * And16(x \div 2, y \div 2)

Xor16(x, y) == x + y - 2 * And16(x, y)
Or16(x, y)  == x + y - And16(x, y)
Not16(x)    == 65535 - x

And32(a, b) == <<And16(a[1], b[1]), And16(a[2], b[2])>>
Or32(a, b)  == <<Or16(a[1], b[1]), Or16(a[2], b[2])>>
Xor32(a, b) == <<Xor16(a[1], b[1]), Xor16(a[2], b[2])>>
Not32(a)    == <<Not16(a[1]), Not16(a[2])>>

Add32(a, b) ==
  LET lo == a[2] + b[2]
      hi == a[1] + b[1] + (lo \div 65536)
  IN  <<hi % 65536, lo % 65536>>

Pow2(n) == [i \in 0..16 |-> 2^i][n]

RotL32(a, s) ==
  LET w == IF s >= 16 THEN <<a[2], a[1]>> ELSE a
      r == s % 16
  IN  IF r = 0 THEN w
      ELSE <<((w[1] * Pow2(r)) % 65536) + (w[2] \div Pow2(16 - r)),
             ((w[2] * Pow2(r)) % 65536) + (w[1] \div Pow2(16 - r))>>

Md5K ==
  << <<55146, 42104>>, <<59591, 46934>>, <<9248, 28891>>, <<49597, 52974>>,
     <<62844, 4015>>, <<18311, 50730>>, <<43056, 17939>>, <<64838, 38145>>,
     <<27008, 39128>>, <<35652, 63407>>, <<65535, 23473>>, <<35164, 55230>>,
     <<27536, 4386>>, <<64920, 29075>>, <<42617, 17294>>, <<18868, 2081>>,
     <<63006, 9570>>, <<49216, 45888>>, <<9822, 23121>>, <<59830, 51114>>,
     <<54831, 4189>>, <<580, 5203>>, <<55457, 59009>>, <<59347, 64456>>,
     <<8673, 52710>>, <<49975, 2006>>, <<62677, 3463>>, <<17754, 5357>>,
     <<43491, 59653>>, <<64751, 41976>>, <<26479, 729>>, <<36138, 19594>>,
     <<65530, 14658>>, <<34673, 63105>>, <<28061, 24866>>, <<64997, 14348>>,
     <<42174, 59972>>, <<19422, 53161>>, <<63163, 19296>>, <<48831, 48240>>,
     <<10395, 32454>>, <<60065, 10234>>, <<54511, 12421>>, <<1160, 7429>>,
     <<55764, 53305>>, <<59099, 39397>>, <<8098, 31992>>, <<50348, 22117>>,
     <<62505, 8772>>, <<17194, 65431>>, <<43924, 9127>>, <<64659, 41017>>,
     <<25947, 22979>>, <<36620, 52370>>, <<65519, 62589>>, <<34180, 24017>>,
     <<28584, 32335>>, <<65068, 59104>>, <<41729, 17172>>, <<19976, 4513>>,
     <<63315, 32386>>, <<48442, 62005>>, <<10967, 53947>>, <<60294, 54161>> >>

Md5S ==
  <<7, 12, 17, 22, 7, 12, 17, 22, 7, 12, 17, 22, 7, 12, 17, 22,
    5, 9, 14, 20, 5, 9, 14, 20, 5, 9, 14, 20, 5, 9, 14, 20,
    4, 11, 16, 23, 4, 11, 16, 23, 4, 11, 16, 23, 4, 11, 16, 23,
    6, 10, 15, 21, 6, 10, 15, 21, 6, 10, 15, 21, 6, 10, 15, 21>>

Md5Init ==
  << <<26437, 8961>>, <<61389, 43913>>, <<39098, 56574>>, <<4146, 21622>> >>

\* message || 0x80 || 0x00 ... || bit length as a 64-bit little-endian value
Md5Pad(bytes) ==
  LET n     == Len(bytes)
      zeros == (119 - (n % 64)) % 64
      bits  == n * 8
  IN  bytes \o <<128>> \o [i \in 1..zeros |-> 0]
        \o <<bits % 256, (bits \div 256) % 256, (bits \div 65536) % 256,
             0, 0, 0, 0, 0>>

\* word g (0..15) of block k (0-based), little-endian
Md5Word(padded, k, g) ==
  LET o == 64 * k + 4 * g
  IN  <<padded[o + 3] + 256 * padded[o + 4], padded[o + 1] + 256 * padded[o + 2]>>

\* one of the 64 steps; st = <<A, B, C, D, step index>>
Md5Round(st, padded, k) ==
  LET a == st[1]
      b == st[2]
      c == st[3]
      d == st[4]
      i == st[5]
      f == IF i < 16 THEN Or32(And32(b, c), And32(Not32(b), d))
           ELSE IF i < 32 THEN Or32(And32(d, b), And32(Not32(d), c))
           ELSE IF i < 48 THEN Xor32(Xor32(b, c), d)
           ELSE Xor32(c, Or32(b, Not32(d)))
      g == IF i < 16 THEN i
           ELSE IF i < 32 THEN (5 * i + 1) % 16
           ELSE IF i < 48 THEN (3 * i + 5) % 16
           ELSE (7 * i) % 16
      t == Add32(Add32(Add32(f, a), Md5K[i + 1]), Md5Word(padded, k, g))
  IN  <<d, Add32(b, RotL32(t, Md5S[i + 1])), b, c, i + 1>>

RECURSIVE Md5Rounds(_, _, _)
Md5Rounds(st, padded, k) ==
  IF st[5] = 64 THEN st
  ELSE Md5Rounds(Md5Round(st, padded, k), padded, k)

\* h = <<A, B, C, D, index of the next block>>
RECURSIVE Md5Blocks(_, _)
Md5Blocks(h, padded) ==
  IF 64 * h[5] >= Len(padded) THEN h
  ELSE LET r == Md5Rounds(<<h[1], h[2], h[3], h[4], 0>>, padded, h[5])
       IN  Md5Blocks(<<Add32(h[1], r[1]), Add32(h[2], r[2]),
                       Add32(h[3], r[3]), Add32(h[4], r[4]), h[5] + 1>>,
                     padded)

HexByte(b) == <<HexDigits[(b \div 16) + 1], HexDigits[(b % 16) + 1]>>

HexWord(w) ==
  HexByte(w[2] % 256) \o HexByte(w[2] \div 256)
    \o HexByte(w[1] % 256) \o HexByte(w[1] \div 256)

\* hashlib.md5(bytes).hexdigest()
md5_hexdigest(bytes) ==
  LET h == Md5Blocks(Md5Init \o <<0>>, Md5Pad(bytes))
  IN  HexWord(h[1]) \o HexWord(h[2]) \o HexWord(h[3]) \o HexWord(h[4])

(***************************************************************************)
(* Python values that json handles, tagged by type:                        *)
(*   [t |-> "null"], "bool", "int", "float" (<<negative, integer part,     *)
(*   fraction digits>>), "str" (characters), "dict" (sequence of           *)
(*   <<key, value>> pairs in insertion order, keys distinct).              *)
(***************************************************************************)
PyNone      == [t |-> "null", v |-> <<>>]
PyBool(b)   == [t |-> "bool", v |-> b]
PyInt(n)    == [t |-> "int", v |-> n]
PyFloat(neg, n, frac) == [t |-> "float", v |-> <<neg, n, frac>>]
PyStr(s)    == [t |-> "str", v |-> s]
PyDict(kvs) == [t |-> "dict", v |-> kvs]

RECURSIVE Concat(_)
Concat(ss) == IF ss = <<>> THEN <<>> ELSE Head(ss) \o Concat(Tail(ss))

RECURSIVE Join(_, _)
Join(sep, ss) ==
  IF ss = <<>> THEN <<>>
  ELSE IF Len(ss) = 1 THEN ss[1]
  ELSE ss[1] \o sep \o Join(sep, Tail(ss))

\* str < str: comparison by code points
StrLess(a, b) ==
  \E i \in 1..(Len(b)) :
     /\ \A j \in 1..(i - 1) : j <= Len(a) /\ a[j] = b[j]
     /\ \/ i = Len(a) + 1
        \/ i <= Len(a) /\ Ord(a[i]) < Ord(b[i])

\* sorted(items, key = first component), by insertion
RECURSIVE SortItems(_)
SortItems(kvs) ==
  IF kvs = <<>> THEN <<>>
  ELSE LET rest == SortItems(Tail(kvs))
           x    == Head(kvs)
           n    == Cardinality({i \in 1..Len(rest) : StrLess(rest[i][1], x[1])})
       IN  SubSeq(rest, 1, n) \o <<x>> \o SubSeq(rest, n + 1, Len(rest))

RECURSIVE NatRepr(_)
NatRepr(n) ==
  IF n < 10 THEN <<Digits[n + 1]>>
  ELSE NatRepr(n \div 10) \o <<Digits[(n % 10) + 1]>>

\* int.__repr__
IntRepr(n) == IF n < 0 THEN <<"-">> \o NatRepr(0 - n) ELSE NatRepr(n)

\* float.__repr__ for values written without an exponent
FloatRepr(f) ==
  (IF f[1] THEN <<"-">> ELSE <<>>) \o NatRepr(f[2]) \o <<".">> \o f[3]

\* json.encoder: a str between quotes, with '"', '\' and newline escaped
\* no escaping at all
JsonEscapeChar_raw(c) == <<c>>

JsonEscapeChar(c) ==
  IF c = "\"" THEN <<"\\", "\"">>
  ELSE IF c = "\\" THEN <<"\\", "\\">>
  ELSE IF c = "\n" THEN <<"\\", "n">>
  ELSE <<c>>

JsonString(s) ==
  <<"\"">> \o Concat([i \in 1..Len(s) |-> JsonEscapeChar(s[i])]) \o <<"\"">>

Spaces(n) == [i \in 1..n |-> " "]

\* json.dumps(v, sort_keys=..., indent=...); indent is <<>> for None and
\* <<n>> for indent=n; level is the nesting depth of v
RECURSIVE json_dumps_at(_, _, _, _)
json_dumps_at(v, sort_keys, indent, level) ==
  CASE v.t = "null"  -> <<"n", "u", "l", "l">>
    [] v.t = "bool"  -> IF v.v THEN <<"t", "r", "u", "e">>
                        ELSE <<"f", "a", "l", "s", "e">>
    [] v.t = "int"   -> IntRepr(v.v)
    [] v.t = "float" -> FloatRepr(v.v)
    [] v.t = "str"   -> JsonString(v.v)
    [] v.t = "dict"  ->
         LET kvs   == IF sort_keys THEN SortItems(v.v) ELSE v.v
             item(i) == JsonString(kvs[i][1]) \o <<":", " ">>
                          \o json_dumps_at(kvs[i][2], sort_keys, indent, level + 1)
             items == [i \in 1..Len(kvs) |-> item(i)]
         IN  IF kvs = <<>> THEN <<"{", "}">>
             ELSE IF indent = <<>>
               THEN <<"{">> \o Join(<<",", " ">>, items) \o <<"}">>
               ELSE LET pad == Spaces(indent[1] * (level + 1))
                    IN  <<"{", "\n">>
                          \o Join(<<",", "\n">>,
                                  [i \in 1..Len(items) |-> pad \o items[i]])
                          \o <<"\n">> \o Spaces(indent[1] * level) \o <<"}">>

json_dumps(v, sort_keys, indent) == json_dumps_at(v, sort_keys, indent, 0)

(***************************************************************************)
(* json.loads.  A parse step returns [ok, v, pos]: whether it succeeded,   *)
(* the value read and the index after it.                                  *)
(***************************************************************************)
JsonFail == [ok |-> FALSE, v |-> PyNone, pos |-> 0]

JsonWhitespace == {" ", "\n"}

IsDigit(c) == \E i \in 1..Len(Digits) : Digits[i] = c

DigitValue(c) == (CHOOSE i \in 1..Len(Digits) : Digits[i] = c) - 1

\* the first index from p on that holds no whitespace (Len(s) + 1 at the end)
SkipWs(s, p) ==
  CHOOSE j \in p..(Len(s) + 1) :
     /\ j = Len(s) + 1 \/ s[j] \notin JsonWhitespace
     /\ \A i \in p..(j - 1) : s[i] \in JsonWhitespace

\* the first index from p on that holds no digit
SkipDigits(s, p) ==
  CHOOSE j \in p..(Len(s) + 1) :
     /\ j = Len(s) + 1 \/ ~IsDigit(s[j])
     /\ \A i \in p..(j - 1) : IsDigit(s[i])

HasAt(s, p, word) ==
  /\ p + Len(word) - 1 <= Len(s)
  /\ \A i \in 1..Len(word) : s[p + i - 1] = word[i]

RECURSIVE NatValue(_)
NatValue(ds) ==
  IF ds = <<>> THEN 0
  ELSE 10 * NatValue(SubSeq(ds, 1, Len(ds) - 1)) + DigitValue(ds[Len(ds)])

\* fraction digits as float() keeps them: no trailing zeros, at least one digit
RECURSIVE StripZeros(_)
StripZeros(ds) ==
  IF Len(ds) > 1 /\ ds[Len(ds)] = "0" THEN StripZeros(SubSeq(ds, 1, Len(ds) - 1))
  ELSE ds

\* the characters of a string literal, p being the index after the opening quote
RECURSIVE ParseStringBody(_, _, _)
ParseStringBody(s, p, acc) ==
  IF p > Len(s) \/ s[p] = "\n" THEN JsonFail
  ELSE IF s[p] = "\"" THEN [ok |-> TRUE, v |-> PyStr(acc), pos |-> p + 1]
  ELSE IF s[p] = "\\"
    THEN IF p + 1 > Len(s) THEN JsonFail
         ELSE IF s[p + 1] = "n" THEN ParseStringBody(s, p + 2, Append(acc, "\n"))
         ELSE IF s[p + 1] \in {"\"", "\\", "/"}
           THEN ParseStringBody(s, p + 2, Append(acc, s[p + 1]))
         ELSE JsonFail
  ELSE ParseStringBody(s, p + 1, Append(acc, s[p]))

ParseString(s, p) ==
  IF p <= Len(s) /\ s[p] = "\"" THEN ParseStringBody(s, p + 1, <<>>) ELSE JsonFail

\* -?(0|[1-9][0-9]*)(\.[0-9]+)?
ParseNumber(s, p) ==
  LET neg  == p <= Len(s) /\ s[p] = "-"
      q    == IF neg THEN p + 1 ELSE p
      r    == IF q <= Len(s) /\ s[q] = "0" THEN q + 1 ELSE SkipDigits(s, q)
      n    == NatValue(SubSeq(s, q, r - 1))
      e    == IF r <= Len(s) /\ s[r] = "." THEN SkipDigits(s, r + 1) ELSE r
  IN  IF r = q THEN JsonFail
      ELSE IF e > r + 1
        THEN [ok |-> TRUE, v |-> PyFloat(neg, n, StripZeros(SubSeq(s, r + 1, e - 1))),
              pos |-> e]
        ELSE [ok |-> TRUE, v |-> PyInt(IF neg THEN 0 - n ELSE n), pos |-> r]

\* dict[key] = value: a repeated key keeps its place and takes the new value
DictSet(kvs, k, v) ==
  IF \E i \in 1..Len(kvs) : kvs[i][1] = k
    THEN [i \in 1..Len(kvs) |-> IF kvs[i][1] = k THEN <<k, v>> ELSE kvs[i]]
    ELSE Append(kvs, <<k, v>>)

RECURSIVE ParseValue(_, _)
RECURSIVE ParseMembers(_, _, _)

\* the members of an object, p being the index of the next key
ParseMembers(s, p, acc) ==
  LET k == ParseString(s, p)
      c == SkipWs(s, k.pos)
      x == ParseValue(s, SkipWs(s, c + 1))
      t == SkipWs(s, x.pos)
  IN  IF ~k.ok \/ c > Len(s) \/ s[c] # ":" THEN JsonFail
      ELSE IF ~x.ok \/ t > Len(s) THEN JsonFail
      ELSE IF s[t] = ","
        THEN ParseMembers(s, SkipWs(s, t + 1), DictSet(acc, k.v.v, x.v))
      ELSE IF s[t] = "}"
        THEN [ok |-> TRUE, v |-> PyDict(DictSet(acc, k.v.v, x.v)), pos |-> t + 1]
      ELSE JsonFail

ParseValue(s, p) ==
  IF p > Len(s) THEN JsonFail
  ELSE IF s[p] = "{"
    THEN LET q == SkipWs(s, p + 1)
         IN  IF q <= Len(s) /\ s[q] = "}"
               THEN [ok |-> TRUE, v |-> PyDict(<<>>), pos |-> q + 1]
               ELSE ParseMembers(s, q, <<>>)
  ELSE IF s[p] = "\"" THEN ParseString(s, p)
  ELSE IF s[p] = "-" \/ IsDigit(s[p]) THEN ParseNumber(s, p)
  ELSE IF HasAt(s, p, <<"n", "u", "l", "l">>)
    THEN [ok |-> TRUE, v |-> PyNone, pos |-> p + 4]
  ELSE IF HasAt(s, p, <<"t", "r", "u", "e">>)
    THEN [ok |-> TRUE, v |-> PyBool(TRUE), pos |-> p + 4]
  ELSE IF HasAt(s, p, <<"f", "a", "l", "s", "e">>)
    THEN [ok |-> TRUE, v |-> PyBool(FALSE), pos |-> p + 5]
  ELSE JsonFail

\* json.loads(s): [ok |-> FALSE] stands for JSONDecodeError
json_loads(s) ==
  LET x == ParseValue(s, SkipWs(s, 1))
  IN  IF x.ok /\ SkipWs(s, x.pos) = Len(s) + 1
        THEN [ok |-> TRUE, v |-> x.v]
        ELSE [ok |-> FALSE, v |-> PyNone]

\* ==: dicts compare by content whatever the insertion order, other values
\* by type and value
RECURSIVE PyEq(_, _)
PyEq(x, y) ==
  IF x.t # y.t THEN FALSE
  ELSE IF x.t = "dict"
    THEN /\ Len(x.v) = Len(y.v)
         /\ \A i \in 1..Len(x.v) :
              \E j \in 1..Len(y.v) :
                 x.v[i][1] = y.v[j][1] /\ PyEq(x.v[i][2], y.v[j][2])
  ELSE x.v = y.v

(***************************************************************************)
(* Inputs of the key derivation.                                           *)
(***************************************************************************)
Prefixes == { <<"m", "/", "r", "f">>, <<"m", "/", "r", "f", "_", "x">> }

ParamKeys == { <<"a">>, <<"b">> }

ParamValues == { PyInt(1), PyStr(<<"1">>) }

\* dicts over ParamKeys: every insertion order of every choice of keys
ParamDicts ==
  { PyDict(kvs) :
      kvs \in { s \in UNION { [1..n -> ParamKeys \X ParamValues] :
                                n \in 0..Cardinality(ParamKeys) } :
                  \A i, j \in 1..Len(s) : s[i][1] = s[j][1] => i = j } }

\* Optional[str]: None, the empty string, or a fingerprint
DataHashes ==
  { PyNone, PyStr(<<>>), PyStr(<<"0", "f">>), PyStr(<<"1", "f">>) }

\* dict.__eq__: the same keys with the same values, in any order
DictEq(d, e) ==
  /\ Len(d.v) = Len(e.v)
  /\ \A i \in 1..Len(d.v) : \E j \in 1..Len(e.v) : d.v[i] = e.v[j]

\* bool(x) of an Optional[str]
Truthy(x) == x.t = "str" /\ x.v # <<>>

(***************************************************************************)
(* MinIOCache: key derivation.                                             *)
(***************************************************************************)
\* json.dumps(params) without sort_keys=True
params_str_unsorted(params) == json_dumps(params, FALSE, <<>>)

params_str(params) == json_dumps(params, TRUE, <<>>)

\* MODEL_PARAMS of the boston_housing_cached DAG
MODEL_PARAMS ==
  PyDict(<< <<<<"n", "_", "e", "s", "t", "i", "m", "a", "t", "o", "r", "s">>, PyInt(100)>>,
            <<<<"m", "a", "x", "_", "d", "e", "p", "t", "h">>, PyInt(10)>>,
            <<<<"m", "i", "n", "_", "s", "a", "m", "p", "l", "e", "s", "_",
                "s", "p", "l", "i", "t">>, PyInt(5)>>,
            <<<<"m", "i", "n", "_", "s", "a", "m", "p", "l", "e", "s", "_",
                "l", "e", "a", "f">>, PyInt(2)>>,
            <<<<"r", "a", "n", "d", "o", "m", "_", "s", "t", "a", "t", "e">>, PyInt(42)>> >>)

\* the digests of the parameter dicts of the model, computed once
ParamsHashMemo ==
  [p \in ParamDicts \cup {MODEL_PARAMS} |-> md5_hexdigest(encode(params_str(p)))]

compute_params_hash(params) == ParamsHashMemo[params]

get_cache_key_noparams(prefix, params, data_hash) ==
  IF Truthy(data_hash) THEN prefix \o <<"_">> \o data_hash.v ELSE prefix

get_cache_key(prefix, params, data_hash) ==
  LET params_hash == compute_params_hash(params)
  IN  IF Truthy(data_hash)
        THEN prefix \o <<"_">> \o params_hash \o <<"_">> \o data_hash.v
        ELSE prefix \o <<"_">> \o params_hash

(***************************************************************************)
(* The object store behind boto3 and the local file system.                *)
(*   A world w is [bucket, objects, files]: whether the bucket exists, the *)
(*   bytes stored under each key, and for each local path its state        *)
(*   ("ok", "absent", "unreadable") and bytes.                             *)
(*   A call returns [exc, ret, w, reads]: the exception raised ("none" if  *)
(*   it returned), the value returned, the world it leaves and the keys    *)
(*   whose bytes it fetched.                                               *)
(*   A fault f names the store call that fails during one invocation.      *)
(***************************************************************************)
Faults ==
  { "none", "client", "head_bucket_conn", "head_bucket_err", "create_bucket",
    "head_object_conn", "head_object_err", "upload_file", "put_object",
    "get_object", "download_file", "urlopen", "train" }

\* bytes of the data file and of the pickled model
DataContents == { <<"1", " ", "2">>, <<"1", " ", "3">> }

NoFile == [st |-> "absent", data |-> <<>>]

File(data) == [st |-> "ok", data |-> data]

Ok(w, ret) == [exc |-> "none", ret |-> ret, w |-> w, reads |-> {}]

Raise(w, e) == [exc |-> e, ret |-> PyNone, w |-> w, reads |-> {}]

\* "r; K(r)": when the statement that gave r raised, the exception goes on to
\* the caller, and otherwise the rest K of the function body runs
Try(r, K(_)) == IF r.exc # "none" THEN r ELSE K(r)

\* "x = value; K(x)"
With(x, K(_)) == K(x)

\* "try: r  except Exception as e: H(e)"
Except(r, H(_)) == IF r.exc # "none" THEN H(r) ELSE r

PutObject(objs, key, body) ==
  [k \in (DOMAIN objs) \cup {key} |-> IF k = key THEN body ELSE objs[k]]

bucket_name == <<"a", "i", "r", "f", "l", "o", "w", "-", "c", "a", "c", "h", "e">>

S3Uri(key) == <<"s", "3", ":", "/", "/">> \o bucket_name \o <<"/">> \o key

_ensure_bucket_exists(w, f) ==
  IF f = "head_bucket_conn" THEN Raise(w, "EndpointConnectionError")
  ELSE IF w.bucket /\ f # "head_bucket_err" THEN Ok(w, PyNone)
  ELSE IF f = "create_bucket" \/ w.bucket THEN Raise(w, "ClientError")
  ELSE Ok([w EXCEPT !.bucket = TRUE], PyNone)

\* MinIOCache(bucket_name="airflow-cache")
MinIOCache_init(w, f) ==
  IF f = "client" THEN Raise(w, "BotoCoreError")
  ELSE _ensure_bucket_exists(w, f)

\* the digests of the data files of the model, computed once
FileHashMemo == [d \in DataContents |-> md5_hexdigest(encode(d))]

compute_file_hash(w, file_path) ==
  IF w.files[file_path].st = "ok"
    THEN Ok(w, PyStr(FileHashMemo[w.files[file_path].data]))
  ELSE IF w.files[file_path].st = "absent" THEN Raise(w, "FileNotFoundError")
  ELSE Raise(w, "PermissionError")

exists(w, key, f) ==
  IF f = "head_object_conn" THEN Raise(w, "EndpointConnectionError")
  ELSE Ok(w, f # "head_object_err" /\ key \in DOMAIN w.objects)

\* Path(data_path).exists()
PathExists(w, path) == w.files[path].st # "absent"

check_cache(w, prefix, params, data_path, f) ==
  Try(IF data_path # "" /\ PathExists(w, data_path)
        THEN compute_file_hash(w, data_path)
        ELSE Ok(w, PyNone),
      LAMBDA data_hash :
        With(get_cache_key(prefix, params, data_hash.ret),
             LAMBDA cache_key :
               Try(exists(w, cache_key, f),
                   LAMBDA e : Ok(w, [exists |-> e.ret, cache_key |-> cache_key]))))

upload_if_absent(w, local_path, key, f) ==
  IF w.files[local_path].st = "absent" THEN Raise(w, "FileNotFoundError")
  ELSE IF w.files[local_path].st = "unreadable" THEN Raise(w, "PermissionError")
  ELSE IF f = "upload_file" THEN Raise(w, "S3UploadFailedError")
  ELSE IF key \in DOMAIN w.objects THEN Ok(w, S3Uri(key))
  ELSE Ok([w EXCEPT !.objects = PutObject(@, key, w.files[local_path].data)],
          S3Uri(key))

upload(w, local_path, key, f) ==
  IF w.files[local_path].st = "absent" THEN Raise(w, "FileNotFoundError")
  ELSE IF w.files[local_path].st = "unreadable" THEN Raise(w, "PermissionError")
  ELSE IF f = "upload_file" THEN Raise(w, "S3UploadFailedError")
  ELSE Ok([w EXCEPT !.objects = PutObject(@, key, w.files[local_path].data)],
          S3Uri(key))

download(w, key, local_path, f) ==
  IF f = "download_file" \/ key \notin DOMAIN w.objects THEN Raise(w, "ClientError")
  ELSE [exc |-> "none", ret |-> local_path, reads |-> {key},
        w |-> [w EXCEPT !.files[local_path] = File(w.objects[key])]]

put_json(w, key, data, f) ==
  With(json_dumps(data, FALSE, <<2>>),
       LAMBDA json_bytes :
         IF f = "put_object" THEN Raise(w, "ClientError")
         ELSE Ok([w EXCEPT !.objects = PutObject(@, key, json_bytes)], S3Uri(key)))

get_json_default(w, key, f) ==
  IF f = "get_object" THEN Raise(w, "EndpointConnectionError")
  ELSE IF key \notin DOMAIN w.objects THEN Ok(w, PyDict(<<>>))
  ELSE With(json_loads(w.objects[key]),
            LAMBDA x :
              IF x.ok THEN [exc |-> "none", ret |-> x.v, w |-> w, reads |-> {key}]
              ELSE [exc |-> "JSONDecodeError", ret |-> PyNone, w |-> w,
                    reads |-> {key}])

\* client.get_object fails with a connection error when the store cannot be
\* reached (fault get_object), and with botocore's ClientError of code
\* NoSuchKey when the store holds no object under the key
get_json(w, key, f) ==
  IF f = "get_object" THEN Raise(w, "EndpointConnectionError")
  ELSE IF key \notin DOMAIN w.objects THEN Raise(w, "NoSuchKey")
  ELSE With(json_loads(w.objects[key]),
            LAMBDA x :
              IF x.ok THEN [exc |-> "none", ret |-> x.v, w |-> w, reads |-> {key}]
              ELSE [exc |-> "JSONDecodeError", ret |-> PyNone, w |-> w,
                    reads |-> {key}])

ModelPrefix(model_name) == <<"m", "o", "d", "e", "l", "s", "/">> \o model_name

PklSuffix == <<".", "p", "k", "l">>

MetadataSuffix ==
  <<"_", "m", "e", "t", "a", "d", "a", "t", "a", ".", "j", "s", "o", "n">>

check_model_cache(w, model_name, params, data_path, f) ==
  Try(MinIOCache_init(w, f),
      LAMBDA cache :
        Try(check_cache(cache.w, ModelPrefix(model_name), params, data_path, f),
            LAMBDA c : Ok(c.w, ~c.ret.exists)))

get_cached_model_bare(w, model_name, params, data_path, local_path, f) ==
  Try(MinIOCache_init(w, f),
      LAMBDA cache :
        Try(check_cache(cache.w, ModelPrefix(model_name), params, data_path, f),
            LAMBDA c :
              IF c.ret.exists
                THEN download(c.w, c.ret.cache_key, local_path, f)
                ELSE Ok(c.w, PyNone)))

get_cached_model(w, model_name, params, data_path, local_path, f) ==
  Try(MinIOCache_init(w, f),
      LAMBDA cache :
        Try(check_cache(cache.w, ModelPrefix(model_name), params, data_path, f),
            LAMBDA c :
              IF c.ret.exists
                THEN download(c.w, c.ret.cache_key \o PklSuffix, local_path, f)
                ELSE Ok(c.w, PyNone)))

Str_model_name == <<"m", "o", "d", "e", "l", "_", "n", "a", "m", "e">>
Str_params     == <<"p", "a", "r", "a", "m", "s">>
Str_data_hash  == <<"d", "a", "t", "a", "_", "h", "a", "s", "h">>
Str_metrics    == <<"m", "e", "t", "r", "i", "c", "s">>

\* the metadata document is written before the artifact is uploaded
save_metadata_first(w, model_path, model_name, params, data_path, metrics, f) ==
  Try(MinIOCache_init(w, f),
      LAMBDA cache :
  Try(IF PathExists(cache.w, data_path)
        THEN compute_file_hash(cache.w, data_path)
        ELSE Ok(cache.w, PyNone),
      LAMBDA data_hash :
  With(get_cache_key(ModelPrefix(model_name), params, data_hash.ret),
      LAMBDA cache_key :
  With(PyDict(<< <<Str_model_name, PyStr(model_name)>>,
                 <<Str_params, params>>,
                 <<Str_data_hash, data_hash.ret>>,
                 <<Str_metrics, metrics>> >>),
      LAMBDA metadata :
  Try(put_json(cache.w, cache_key \o MetadataSuffix, metadata, f),
      LAMBDA m :
  Try(upload(m.w, model_path, cache_key \o PklSuffix, f),
      LAMBDA model_uri : Ok(model_uri.w, model_uri.ret)))))))

save_model_to_cache(w, model_path, model_name, params, data_path, metrics, f) ==
  Try(MinIOCache_init(w, f),
      LAMBDA cache :
  Try(IF PathExists(cache.w, data_path)
        THEN compute_file_hash(cache.w, data_path)
        ELSE Ok(cache.w, PyNone),
      LAMBDA data_hash :
  With(get_cache_key(ModelPrefix(model_name), params, data_hash.ret),
      LAMBDA cache_key :
  Try(upload(cache.w, model_path, cache_key \o PklSuffix, f),
      LAMBDA model_uri :
  With(PyDict(<< <<Str_model_name, PyStr(model_name)>>,
                 <<Str_params, params>>,
                 <<Str_data_hash, data_hash.ret>>,
                 <<Str_metrics, metrics>> >>),
      LAMBDA metadata :
  Try(put_json(model_uri.w, cache_key \o MetadataSuffix, metadata, f),
      LAMBDA m : Ok(m.w, model_uri.ret)))))))

(***************************************************************************)
(* The tasks of the boston_housing_cached DAG.  A task body returns        *)
(* [exc, ret, w, reads] like the cache calls; exc # "none" means that the  *)
(* exception left the task.                                                *)
(***************************************************************************)
Str_r2_score == <<"r", "2", "_", "s", "c", "o", "r", "e">>
Str_rmse     == <<"r", "m", "s", "e">>
Str_mae      == <<"m", "a", "e">>

Str_random_forest_cached ==
  <<"r", "a", "n", "d", "o", "m", "_", "f", "o", "r", "e", "s", "t", "_",
    "c", "a", "c", "h", "e", "d">>

\* str.strip()
Strip(s) ==
  LET isWs(c) == c \in {" ", "\n"}
      keep    == {i \in 1..Len(s) : ~isWs(s[i])}
  IN  IF keep = {} THEN <<>>
      ELSE SubSeq(s, CHOOSE i \in keep : \A j \in keep : i <= j,
                     CHOOSE i \in keep : \A j \in keep : j <= i)

\* str.split(sep) for a one-character sep
RECURSIVE Split(_, _)
Split(s, sep) ==
  IF \A i \in 1..Len(s) : s[i] # sep THEN <<s>>
  ELSE LET n == CHOOSE i \in 1..Len(s) :
                   s[i] = sep /\ \A j \in 1..(i - 1) : s[j] # sep
       IN  <<SubSeq(s, 1, n - 1)>> \o Split(SubSeq(s, n + 1, Len(s)), sep)

\* the file content that download_data derives from the response
ConvertCsv(content) ==
  LET lines == Split(Strip(content), "\n")
  IN  IF \E i \in 1..Len(lines[1]) : lines[1][i] = ","
        THEN Join(<<"\n">>,
                  [k \in 1..(Len(lines) - 1) |->
                     Join(<<" ">>, Split(lines[k + 1], ","))])
        ELSE content

\* what the URL may serve
Responses ==
  { <<"a", ",", "b", "\n", "1", ",", "2", "\n">>,
    <<"a", ",", "b", "\n", "1", ",", "3", "\n">> }

download_data(w, response, f) ==
  IF PathExists(w, "data") THEN Ok(w, "data")
  ELSE IF f = "urlopen" THEN Raise(w, "URLError")
  ELSE Ok([w EXCEPT !.files["data"] = File(ConvertCsv(response))], "data")

check_cache_exists_raising(w, data_path, f) ==
  Try(MinIOCache_init(w, f),
      LAMBDA cache :
        Try(check_cache(cache.w, ModelPrefix(Str_random_forest_cached),
                        MODEL_PARAMS, data_path, f),
            LAMBDA c :
              IF c.ret.exists
                THEN Ok(c.w, [go |-> FALSE, pushed |-> TRUE,
                              cache_key |-> c.ret.cache_key])
                ELSE Ok(c.w, [go |-> TRUE, pushed |-> TRUE,
                              cache_key |-> c.ret.cache_key])))

\* go is the value handed to the ShortCircuitOperator, pushed tells whether
\* the key was pushed to XCom
check_cache_exists(w, data_path, f) ==
  Except(Try(MinIOCache_init(w, f),
             LAMBDA cache :
               Try(check_cache(cache.w, ModelPrefix(Str_random_forest_cached),
                               MODEL_PARAMS, data_path, f),
                   LAMBDA c :
                     IF c.ret.exists
                       THEN Ok(c.w, [go |-> FALSE, pushed |-> TRUE,
                                     cache_key |-> c.ret.cache_key])
                       ELSE Ok(c.w, [go |-> TRUE, pushed |-> TRUE,
                                     cache_key |-> c.ret.cache_key]))),
         LAMBDA e : Ok(e.w, [go |-> TRUE, pushed |-> FALSE]))

\* the fitted model, pickled, and its metrics: a function of the data
PickledModel(data) == <<"R", "F", ":">> \o data

FitMetrics(data) ==
  PyDict(<< <<Str_r2_score,
              PyFloat(FALSE, 0, IF data[Len(data)] = "2" THEN <<"8", "7">>
                                ELSE <<"9", "1">>)>>,
            <<Str_rmse, PyFloat(FALSE, 3, <<"2", "5">>)>>,
            <<Str_mae, PyFloat(FALSE, 2, <<"0">>)>> >>)

train_model(w, data_path, f) ==
  IF w.files[data_path].st = "absent" THEN Raise(w, "FileNotFoundError")
  ELSE IF w.files[data_path].st = "unreadable" THEN Raise(w, "PermissionError")
  ELSE IF f = "train" THEN Raise(w, "ValueError")
  ELSE LET data == w.files[data_path].data
       IN  Ok([w EXCEPT !.files["model1"] = File(PickledModel(data))],
              [model_path |-> "model1", data_path |-> data_path,
               params |-> MODEL_PARAMS, metrics |-> FitMetrics(data)])

save_to_cache(w, train_result, f) ==
  Except(Try(save_model_to_cache(w, train_result.model_path,
                                 Str_random_forest_cached, train_result.params,
                                 train_result.data_path, train_result.metrics, f),
             LAMBDA model_uri :
               Ok(model_uri.w, [status |-> "saved", cache_uri |-> model_uri.ret,
                                metrics |-> train_result.metrics])),
         LAMBDA e : Ok(e.w, [status |-> "error", error |-> e.exc,
                             metrics |-> train_result.metrics]))

\* d[k] on a parsed document: [ok |-> FALSE] stands for KeyError / TypeError
Subscript(d, k) ==
  IF d.t = "dict" /\ \E i \in 1..Len(d.v) : d.v[i][1] = k
    THEN [ok |-> TRUE, v |-> d.v[CHOOSE i \in 1..Len(d.v) : d.v[i][1] = k][2]]
    ELSE [ok |-> FALSE, v |-> PyNone]

\* f"{x:.4f}" works for numbers only
FormatsAsFloat(x) == x.t \in {"float", "int", "bool"}

\* metadata['metrics']['r2_score'] is looked up and formatted for the log
\* before the task returns
use_cached_model(w, data_path, f) ==
  Except(
    Try(MinIOCache_init(w, f),
        LAMBDA cache :
    Try(check_cache(cache.w, ModelPrefix(Str_random_forest_cached),
                    MODEL_PARAMS, data_path, f),
        LAMBDA c :
          IF ~c.ret.exists THEN Ok(c.w, [status |-> "no_cache"])
          ELSE
    Try(get_json(c.w, c.ret.cache_key \o MetadataSuffix, f),
        LAMBDA metadata :
    With(Subscript(metadata.ret, Str_metrics),
        LAMBDA metrics :
    With(Subscript(metrics.v, Str_r2_score),
        LAMBDA r2 :
          IF ~metrics.ok \/ ~r2.ok THEN [metadata EXCEPT !.exc = "KeyError"]
          ELSE IF ~FormatsAsFloat(r2.v) THEN [metadata EXCEPT !.exc = "ValueError"]
          ELSE [exc |-> "none", w |-> metadata.w, reads |-> metadata.reads,
                ret |-> [status |-> "from_cache", cache_key |-> c.ret.cache_key,
                         metrics |-> metrics.v]]))))),
    LAMBDA e : [exc |-> "none", w |-> e.w, reads |-> e.reads,
                ret |-> [status |-> "error", error |-> e.exc]])

\* an upstream task that was skipped hands over None
NoResult == [status |-> "none"]

generate_summary(data_path, cache_result, train_save_result) ==
  IF train_save_result.status = "saved"
    THEN [source |-> "trained", data_path |-> data_path, params |-> MODEL_PARAMS,
          metrics |-> train_save_result.metrics]
  ELSE IF cache_result.status = "from_cache"
    THEN [source |-> "cached", data_path |-> data_path, params |-> MODEL_PARAMS,
          metrics |-> cache_result.metrics]
  ELSE [source |-> "unknown", data_path |-> data_path, params |-> MODEL_PARAMS,
        metrics |-> PyDict(<<>>)]

(***************************************************************************)
(* The pipeline monitor (src/monitoring/pipeline_monitor.py).  A monitor   *)
(* object is a record of its fields; history_dir is the directory as a     *)
(* sequence of files in the order a listing returns them, each file with   *)
(* its name, its content and its modification time.  A call returns the    *)
(* monitor it leaves, what it returned and the exception it raised.        *)
(* json.dump followed by json.load is taken to give back the dictionary    *)
(* that to_dict built: its values are strings and lists.                   *)
(***************************************************************************)
\* A pipeline name is the sequence of the words that "_" separates in it:
\* "test_pipeline", the name the tests give their monitor
pipeline_name == <<"test", "pipeline">>

\* Python's None
NoneValue == [status |-> "None"]

MonitorResult(m, ret, exc) == [m |-> m, ret |-> ret, exc |-> exc]

StageMetrics(stage_name) == [stage_name |-> stage_name, status |-> "running"]

PipelineRun(run_id, name) ==
  [run_id |-> run_id, pipeline_name |-> name, stages |-> <<>>,
   status |-> "running"]

StageMetrics_to_dict(s) == [stage_name |-> s.stage_name, status |-> s.status]

PipelineRun_to_dict(run) ==
  [run_id |-> run.run_id, pipeline_name |-> run.pipeline_name,
   status |-> run.status,
   stages |-> [i \in 1..Len(run.stages) |-> StageMetrics_to_dict(run.stages[i])]]

start_run(m, run_id) ==
  MonitorResult([m EXCEPT !.current_run = PipelineRun(run_id, m.pipeline_name)],
                PipelineRun(run_id, m.pipeline_name), "none")

\* the stage is made before the run is looked at
start_stage_unchecked(m, stage_name) ==
  IF m.current_run = NoneValue
    THEN MonitorResult([m EXCEPT !.current_stage = StageMetrics(stage_name)],
                       NoneValue, "RuntimeError")
  ELSE MonitorResult([m EXCEPT !.current_stage = StageMetrics(stage_name)],
                     StageMetrics(stage_name), "none")

start_stage(m, stage_name) ==
  IF m.current_run = NoneValue
    THEN MonitorResult(m, NoneValue, "RuntimeError")
  ELSE MonitorResult([m EXCEPT !.current_stage = StageMetrics(stage_name)],
                     StageMetrics(stage_name), "none")

StageStatus(success) == IF success THEN "success" ELSE "failed"

\* the ended stage goes to the front of the list
end_stage_prepend(m, success) ==
  IF m.current_stage = NoneValue
    THEN MonitorResult(m, NoneValue, "none")
  ELSE MonitorResult(
         [current_run   |-> IF m.current_run # NoneValue
                              THEN [m.current_run EXCEPT
                                      !.stages = <<[m.current_stage EXCEPT
                                               !.status = StageStatus(success)]>> \o @]
                            ELSE m.current_run,
          current_stage |-> NoneValue,
          history_dir   |-> m.history_dir,
          max_history   |-> m.max_history,
          pipeline_name |-> m.pipeline_name],
         [m.current_stage EXCEPT !.status = StageStatus(success)], "none")

end_stage(m, success) ==
  IF m.current_stage = NoneValue
    THEN MonitorResult(m, NoneValue, "none")
  ELSE MonitorResult(
         [current_run   |-> IF m.current_run # NoneValue
                              THEN [m.current_run EXCEPT
                                      !.stages = Append(@, [m.current_stage EXCEPT
                                               !.status = StageStatus(success)])]
                            ELSE m.current_run,
          current_stage |-> NoneValue,
          history_dir   |-> m.history_dir,
          max_history   |-> m.max_history,
          pipeline_name |-> m.pipeline_name],
         [m.current_stage EXCEPT !.status = StageStatus(success)], "none")

\* history_dir / f"{pipeline_name}_{run_id}.json", as the words that "_"
\* separates in the name of the file
RunFile(name, run_id) == name \o <<run_id>>

\* open(run_file, "w") and json.dump: an existing file keeps its place in
\* the directory, a new one gets the place pos
WriteFile(dir, name, doc, t, pos) ==
  IF \E i \in 1..Len(dir) : dir[i].name = name
    THEN [i \in 1..Len(dir) |->
            IF dir[i].name = name THEN [name |-> name, doc |-> doc, mtime |-> t]
            ELSE dir[i]]
  ELSE SubSeq(dir, 1, pos - 1)
       \o <<[name |-> name, doc |-> doc, mtime |-> t]>>
       \o SubSeq(dir, pos, Len(dir))

RECURSIVE InsertByMtime(_, _)
InsertByMtime(sorted, f) ==
  IF sorted = <<>> THEN <<f>>
  ELSE IF Head(sorted).mtime >= f.mtime
    THEN <<Head(sorted)>> \o InsertByMtime(Tail(sorted), f)
  ELSE <<f>> \o sorted

\* sorted(glob(...), key=lambda x: x.stat().st_mtime, reverse=True): the
\* sort is stable, files of one modification time keep the listing's order
RECURSIVE SortedByMtime(_)
SortedByMtime(dir) ==
  IF dir = <<>> THEN <<>>
  ELSE InsertByMtime(SortedByMtime(SubSeq(dir, 1, Len(dir) - 1)), dir[Len(dir)])

\* the pattern f"{pipeline_name}_*.json" matches the file: its name begins
\* with the pipeline name and a "_"
GlobMatches(name, f) ==
  Len(f.name) > Len(name) /\ SubSeq(f.name, 1, Len(name)) = name

\* history_dir.glob(f"{pipeline_name}_*.json"), in the order of the listing
Glob(dir, name) == SelectSeq(dir, LAMBDA f : GlobMatches(name, f))

\* history_files[max_history:] are unlinked
_cleanup_history(dir, name, max_history) ==
  With(SortedByMtime(Glob(dir, name)), LAMBDA sorted :
    SelectSeq(dir, LAMBDA f :
      \A i \in 1..Len(sorted) : sorted[i] = f => i <= max_history))

_save_to_history(m, t, pos) ==
  _cleanup_history(
    WriteFile(m.history_dir, RunFile(m.pipeline_name, m.current_run.run_id),
              PipelineRun_to_dict(m.current_run), t, pos),
    m.pipeline_name, m.max_history)

end_run(m, success, save_history, t, pos) ==
  IF m.current_run = NoneValue
    THEN MonitorResult(m, NoneValue, "none")
  ELSE With([m EXCEPT !.current_run.status = StageStatus(success)], LAMBDA m1 :
         MonitorResult(
           [m1 EXCEPT !.history_dir = IF save_history
                                        THEN _save_to_history(m1, t, pos)
                                      ELSE @,
                      !.current_run = NoneValue],
           m1.current_run, "none"))

get_history(m, limit) ==
  With(SortedByMtime(Glob(m.history_dir, m.pipeline_name)), LAMBDA sorted :
    [i \in 1..(IF limit < Len(sorted) THEN limit ELSE Len(sorted)) |-> sorted[i].doc])

\* PipelineMonitorContext.__enter__
PipelineMonitorContext_enter(m, run_id) == start_run(m, run_id)

\* PipelineMonitorContext.__exit__: raised says an exception left the body
PipelineMonitorContext_exit(m, raised, t, pos) ==
  end_run(m, ~raised, TRUE, t, pos)

(***************************************************************************)
(* The notifier (src/notifications/notifier.py).  fails is the set of      *)
(* channels that cannot deliver during the call: the reports directory     *)
(* cannot be written, the console cannot be printed to, the object store   *)
(* cannot be reached.  reports is the set of files of the reports          *)
(* directory, named by their extension.                                    *)
(***************************************************************************)
NotificationChannels == {"file", "console", "minio"}

DefaultChannels == <<"file", "console">>

AllFormats == <<"json", "md", "txt">>

Sent(reports, result) == [raised |-> FALSE, result |-> result, reports |-> reports]

SendRaised(reports, e) ==
  [raised |-> TRUE, result |-> [success |-> FALSE, error |-> e, files |-> <<>>],
   reports |-> reports]

\* the formats written, in the order the function writes them
Written_formats(formats, known) ==
  SelectSeq(known, LAMBDA x : \E i \in 1..Len(formats) : formats[i] = x)

_send_to_file(reports, formats, fails) ==
  IF "file" \in fails /\ Written_formats(formats, AllFormats) # <<>>
    THEN SendRaised(reports, "OSError")
  ELSE Sent(reports \cup { Written_formats(formats, AllFormats)[i] :
                             i \in 1..Len(Written_formats(formats, AllFormats)) },
            [success |-> TRUE, error |-> "",
             files |-> Written_formats(formats, AllFormats)])

_send_to_console(reports, fails) ==
  IF "console" \in fails THEN SendRaised(reports, "OSError")
  ELSE Sent(reports, [success |-> TRUE, error |-> "", files |-> <<>>])

\* every exception is caught inside and becomes a result
_send_to_minio(reports, formats, fails) ==
  IF "minio" \in fails
    THEN Sent(reports, [success |-> FALSE, error |-> "EndpointConnectionError",
                        files |-> <<>>])
  ELSE Sent(reports, [success |-> TRUE, error |-> "",
                      files |-> Written_formats(formats, <<"json", "md">>)])

Send(channel, reports, formats, fails) ==
  IF channel = "file" THEN _send_to_file(reports, formats, fails)
  ELSE IF channel = "console" THEN _send_to_console(reports, fails)
  ELSE _send_to_minio(reports, formats, fails)

SetEntry(entries, k, v) ==
  [x \in DOMAIN entries \cup {k} |-> IF x = k THEN v ELSE entries[x]]

\* the except branch records no entry
notify_channel_noentry(acc, channel, formats, fails) ==
  With(Send(channel, acc.reports, formats, fails), LAMBDA s :
    [results   |-> [success  |-> acc.results.success /\ ~s.raised,
                    channels |-> IF s.raised THEN acc.results.channels
                                 ELSE SetEntry(acc.results.channels, channel, s.result)],
     attempted |-> Append(acc.attempted, channel),
     reports   |-> s.reports])

\* one pass of the loop of notify, its try and its except
notify_channel(acc, channel, formats, fails) ==
  With(Send(channel, acc.reports, formats, fails), LAMBDA s :
    [results   |-> [success  |-> acc.results.success /\ ~s.raised,
                    channels |-> SetEntry(acc.results.channels, channel, s.result)],
     attempted |-> Append(acc.attempted, channel),
     reports   |-> s.reports])

RECURSIVE NotifyLoop(_, _, _, _)
NotifyLoop(acc, channels, formats, fails) ==
  IF channels = <<>> THEN acc
  ELSE NotifyLoop(notify_channel(acc, Head(channels), formats, fails),
                  Tail(channels), formats, fails)

NoEntries == [c \in {} |-> [success |-> FALSE, error |-> "", files |-> <<>>]]

\* formats or ["json", "md", "txt"]
notify(channels, reports, formats, fails) ==
  NotifyLoop([results   |-> [success |-> TRUE, channels |-> NoEntries],
              attempted |-> <<>>,
              reports   |-> reports],
             channels, IF formats = <<>> THEN AllFormats ELSE formats, fails)

\* self.channels = channels or [FILE, CONSOLE]
Notifier_init(channels) == IF channels = <<>> THEN DefaultChannels ELSE channels

(***************************************************************************)
(* The retry decorator (src/integration/utils.py).  func is the wrapped    *)
(* function as the sequence of what its invocations do: the i-th entry     *)
(* says which exception the i-th invocation raises, or "none", and what it *)
(* returns.  An exception is caught by "except exceptions" when it is an   *)
(* instance of one of the classes listed.                                  *)
(***************************************************************************)
Bases(e) ==
  CASE e = "TooManyRedirects"  -> {"TooManyRedirects", "RequestException", "Exception"}
    [] e = "ValueError"        -> {"ValueError", "Exception"}
    [] e = "TypeError"         -> {"TypeError", "Exception"}
    [] OTHER                   -> {e}

Caught(e, exceptions) == Bases(e) \cap exceptions # {}

base_delay == 1

max_delay == 60

exponential_base == 2

\* min(base_delay * (exponential_base**attempt), max_delay)
Delay(attempt) ==
  IF base_delay * (exponential_base ^ attempt) < max_delay
    THEN base_delay * (exponential_base ^ attempt)
  ELSE max_delay

Returned(invoked, ret, slept) ==
  [invoked |-> invoked, exc |-> [type |-> "none", at |-> 0], ret |-> ret,
   slept |-> slept]

Raised(invoked, e, slept) ==
  [invoked |-> invoked, exc |-> e, ret |-> NoneValue, slept |-> slept]

\* raise last_exception: raising None is a TypeError
RaiseLast(last_exception) ==
  IF last_exception = NoneValue THEN [type |-> "TypeError", at |-> 0]
  ELSE last_exception

\* the loop of wrapper from the given attempt on, and the raise after it
RECURSIVE retry_loop(_, _, _, _, _, _)
retry_loop(max_retries, exceptions, func, attempt, last_exception, slept) ==
  IF attempt >= max_retries
    THEN Raised(attempt, RaiseLast(last_exception), slept)
  ELSE IF func[attempt + 1].raises = "none"
    THEN Returned(attempt + 1, func[attempt + 1].value, slept)
  ELSE IF Caught(func[attempt + 1].raises, exceptions)
    THEN retry_loop(max_retries, exceptions, func, attempt + 1,
                    [type |-> func[attempt + 1].raises, at |-> attempt + 1],
                    IF attempt < max_retries - 1
                      THEN Append(slept, Delay(attempt)) ELSE slept)
  ELSE Raised(attempt + 1, [type |-> func[attempt + 1].raises, at |-> attempt + 1],
              slept)

retry_with_backoff(max_retries, exceptions, func) ==
  retry_loop(max_retries, exceptions, func, 0, NoneValue, <<>>)

(***************************************************************************)
(* The health checker (src/integration/health_check.py).  env says what    *)
(* the surroundings do during one check_all: whether the configuration of  *)
(* a service can be read, the responses its URL gives to the requests made *)
(* to it, what head_bucket does, and what the dvc commands do.             *)
(***************************************************************************)
ServiceNames == <<"mlflow", "minio", "airflow", "dvc">>

\* ServiceConfig.name of the service
ConfigName(service_name) ==
  CASE service_name = "mlflow"  -> "MLflow Tracking Server"
    [] service_name = "minio"   -> "MinIO S3 Storage"
    [] service_name = "airflow" -> "Apache Airflow"
    [] OTHER                    -> "dvc"

HealthCheckResult(service, status, message) ==
  [service |-> service, status |-> status, message |-> message]

CheckReturned(result) == [exc |-> "none", ret |-> result]

CheckRaised(e) == [exc |-> e, ret |-> NoneValue]

\* the body of _check_http_service, for one response to requests.get
http_check_once(name, response) ==
  CASE response = "200" ->
         [raises |-> "none", value |-> HealthCheckResult(name, "healthy", "available")]
    [] response = "Timeout" ->
         [raises |-> "none", value |-> HealthCheckResult(name, "unhealthy", "timeout")]
    [] response = "ConnectionError" ->
         [raises |-> "none",
          value |-> HealthCheckResult(name, "unhealthy", "connection error")]
    [] response = "TooManyRedirects" ->
         [raises |-> "TooManyRedirects", value |-> NoneValue]
    [] OTHER ->
         [raises |-> "none", value |-> HealthCheckResult(name, "degraded", "status code")]

HttpRetries == 2

\* @retry_with_backoff(max_retries=2, exceptions=(requests.RequestException,))
_check_http_service(name, responses) ==
  With(retry_with_backoff(HttpRetries, {"RequestException"},
                          [i \in 1..Len(responses) |->
                             http_check_once(name, responses[i])]),
       LAMBDA r : IF r.exc.type = "none" THEN CheckReturned(r.ret)
                  ELSE CheckRaised(r.exc.type))

\* get_service_config and then _check_http_service
check_http(service_name, e) ==
  IF e.config # "ok" THEN CheckRaised(e.config)
  ELSE _check_http_service(ConfigName(service_name), e.responses)

check_mlflow(env) == check_http("mlflow", env.mlflow)

check_airflow(env) == check_http("airflow", env.airflow)

check_minio(env) ==
  With(check_http("minio", env.minio), LAMBDA r :
    IF r.exc = "none" /\ r.ret.status = "healthy" /\ env.bucket = "ClientError"
      THEN CheckReturned(HealthCheckResult(r.ret.service, "degraded",
                                           "available (bucket not found)"))
    ELSE r)

check_dvc(env) ==
  CASE env.dvc = "ok" ->
         CheckReturned(HealthCheckResult("dvc", "healthy", "works"))
    [] env.dvc = "returncode" ->
         CheckReturned(HealthCheckResult("dvc", "unhealthy", "not available"))
    [] OTHER ->
         CheckReturned(HealthCheckResult("dvc", "unhealthy", "timeout"))

Check(service_name, env) ==
  CASE service_name = "mlflow"  -> check_mlflow(env)
    [] service_name = "minio"   -> check_minio(env)
    [] service_name = "airflow" -> check_airflow(env)
    [] OTHER                    -> check_dvc(env)

\* a check that raises leaves no result
check_all_noappend(env) ==
  Concat([i \in 1..Len(ServiceNames) |->
            With(Check(ServiceNames[i], env), LAMBDA r :
              IF r.exc = "none" THEN <<r.ret>>
              ELSE <<>>)])

\* self.results after check_all
check_all(env) ==
  Concat([i \in 1..Len(ServiceNames) |->
            With(Check(ServiceNames[i], env), LAMBDA r :
              IF r.exc = "none" THEN <<r.ret>>
              ELSE <<HealthCheckResult(ServiceNames[i], "unhealthy", "check error")>>)])

CountStatus(rs, status) == Cardinality({i \in 1..Len(rs) : rs[i].status = status})

Summary(rs) ==
  [overall_status |-> IF CountStatus(rs, "unhealthy") > 0 THEN "unhealthy"
                      ELSE IF CountStatus(rs, "degraded") > 0 THEN "degraded"
                      ELSE "healthy",
   total     |-> Len(rs),
   healthy   |-> CountStatus(rs, "healthy"),
   degraded  |-> CountStatus(rs, "degraded"),
   unhealthy |-> CountStatus(rs, "unhealthy"),
   services  |-> rs]

\* if not self.results: self.check_all()
get_summary(rs, env) ==
  With(IF rs = <<>> THEN check_all(env) ELSE rs, LAMBDA checked :
    [results |-> checked, ret |-> Summary(checked)])

(***************************************************************************)
(* State.                                                                  *)
(*   keyPrefix, keyCalls : the get_cache_key calls made so far             *)
(*   bucket, objects     : the object store                                *)
(*   files               : the local file system                           *)
(*   cacheReady          : a MinIOCache instance has been constructed      *)
(*   last                : the latest call, its inputs and its outcome     *)
(*   saved               : the (params, data file) pairs for which         *)
(*                         save_model_to_cache has returned                *)
(*   lastPut             : per key, what the latest upload or put_json     *)
(*                         that returned was given                         *)
(*   ti, tries, xcom     : per task of the DAG run, its state, the number  *)
(*                         of attempts and the value it returned           *)
(*   dagLog              : per task, the fault injected into its latest    *)
(*                         attempt, the world it started from and the      *)
(*                         keys it fetched                                 *)
(*   gcm                 : the latest get_cached_model call                *)
(*   procs               : per concurrent process, the store call it is    *)
(*                         about to make, its inputs, and what it has      *)
(*                         seen and written                                *)
(*   monitor             : the PipelineMonitor object and its history      *)
(*                         directory                                       *)
(*   now                 : the time the file system stamps a write with    *)
(*   started, staged     : the number of runs started and of stage calls   *)
(*                         made                                            *)
(*   stageCalls          : the start_stage and end_stage calls made in     *)
(*                         the active run                                  *)
(*   ctx                 : the monitor.context() block: where it is, its   *)
(*                         run, and how often end_run ended that run       *)
(*   monLast             : the latest call of the monitor and its outcome  *)
(*   channels            : the channels of the Notifier object             *)
(*   reports_dir         : the files of its reports directory              *)
(*   ntfLast             : the latest notify call and its outcome          *)
(*   rtLast              : the latest call of a function wrapped by        *)
(*                         retry_with_backoff and its outcome              *)
(*   results             : the results of the HealthChecker object         *)
(*   hcLast              : the latest call of the health checker           *)
(*   monitors            : the PipelineMonitor objects that share one      *)
(*                         history directory                               *)
(*   history_dir         : the files of that directory                     *)
(*   shLast              : the latest call on one of these monitors        *)
(***************************************************************************)
VARIABLES keyPrefix, keyCalls, bucket, objects, files, cacheReady, last,
          saved, lastPut, ti, tries, xcom, dagLog, gcm, procs,
          monitor, now, started, staged, stageCalls, ctx, monLast,
          channels, reports_dir, ntfLast, rtLast, results, hcLast,
          monitors, history_dir, shLast

keyVars == <<keyPrefix, keyCalls>>

storeVars == <<bucket, objects, files, cacheReady, last, saved, lastPut>>

dagVars == <<ti, tries, xcom, dagLog, gcm>>

concVars == <<procs>>

monVars == <<monitor, now, started, staged, stageCalls, ctx, monLast>>

ntfVars == <<channels, reports_dir, ntfLast>>

retryVars == <<rtLast>>

healthVars == <<results, hcLast>>

sharedVars == <<monitors, history_dir, shLast>>

auxVars == <<retryVars, healthVars, sharedVars>>

toolVars == <<monVars, ntfVars, auxVars>>

vars == <<keyVars, storeVars, dagVars, concVars, toolVars>>

MaxKeyCalls == 2

Paths == {"data", "model1", "model2", "dest"}

NoObjects == [k \in {} |-> <<>>]

NoCall == [op |-> "none"]

World == [bucket |-> bucket, objects |-> objects, files |-> files]

\* the world a call leaves becomes the state
Leave(r) ==
  /\ bucket' = r.w.bucket
  /\ objects' = r.w.objects
  /\ files' = r.w.files

KeyIdle == keyPrefix = <<>> /\ keyCalls = <<>>

Tasks ==
  {"download_data", "check_cache", "train_model", "save_to_cache",
   "use_cached_model", "generate_summary"}

NoLog == [f |-> "none", reads |-> {}]

DagIdle ==
  /\ ti = [t \in Tasks |-> "none"]
  /\ tries = [t \in Tasks |-> 0]
  /\ xcom = [t \in Tasks |-> NoResult]
  /\ dagLog = [t \in Tasks |-> NoLog]
  /\ gcm = NoCall

ConcIdle == procs = <<>>

NoContext == [state |-> "none", run_id |-> "", raised |-> FALSE, ends |-> 0]

\* PipelineMonitor.__init__ on an empty directory
PipelineMonitor_init(name, max_history) ==
  [current_run |-> NoneValue, current_stage |-> NoneValue,
   history_dir |-> <<>>, max_history |-> max_history, pipeline_name |-> name]

DefaultMaxHistory == 100

MonIdle ==
  /\ monitor = PipelineMonitor_init(pipeline_name, DefaultMaxHistory)
  /\ now = 0
  /\ started = 0
  /\ staged = 0
  /\ stageCalls = <<>>
  /\ ctx = NoContext
  /\ monLast = NoCall

NtfIdle ==
  /\ channels = <<>>
  /\ reports_dir = {}
  /\ ntfLast = NoCall

RetryIdle == rtLast = NoCall

HealthIdle == results = <<>> /\ hcLast = NoCall

SharedIdle == monitors = <<>> /\ history_dir = <<>> /\ shLast = NoCall

AuxIdle == RetryIdle /\ HealthIdle /\ SharedIdle

ToolIdle == MonIdle /\ NtfIdle /\ AuxIdle

StoreIdle ==
  /\ bucket = FALSE
  /\ objects = NoObjects
  /\ files = [p \in Paths |-> NoFile]
  /\ cacheReady = FALSE
  /\ last = NoCall
  /\ saved = {}
  /\ lastPut = NoObjects

(***************************************************************************)
(* Key derivation on its own: a caller applies get_cache_key to inputs of  *)
(* its choice, under one prefix.                                           *)
(***************************************************************************)
KeyInit ==
  /\ keyPrefix \in Prefixes
  /\ keyCalls = <<>>
  /\ StoreIdle
  /\ DagIdle
  /\ ConcIdle
  /\ ToolIdle

CallGetCacheKey ==
  /\ Len(keyCalls) < MaxKeyCalls
  /\ \E params \in ParamDicts, data_hash \in DataHashes :
       keyCalls' = Append(keyCalls,
                          [params    |-> params,
                           data_hash |-> data_hash,
                           key       |-> get_cache_key(keyPrefix, params, data_hash)])
  /\ UNCHANGED <<keyPrefix, storeVars, dagVars, concVars, toolVars>>

KeyNext == CallGetCacheKey

SpecKey == KeyInit /\ [][KeyNext]_vars

(***************************************************************************)
(* The store interface on its own: a client constructs a MinIOCache and    *)
(* calls upload, download, put_json and get_json on a few keys.            *)
(***************************************************************************)
ApiKeys == { <<"k", "1">>, <<"k", "2">> }

\* documents handed to put_json; the last two hold the same keys and values
\* in a different insertion order
JsonDocs ==
  { PyDict(<<>>),
    PyDict(<< <<Str_model_name, PyStr(<<"r", "f">>)>>,
              <<Str_params, PyDict(<< <<<<"b">>, PyInt(10)>>, <<<<"a">>, PyInt(-1)>> >>)>>,
              <<Str_data_hash, PyNone>>,
              <<Str_metrics, PyDict(<< <<Str_r2_score, PyFloat(FALSE, 0, <<"8", "7">>)>>,
                                       <<Str_mae, PyFloat(TRUE, 2, <<"0">>)>> >>)>> >>),
    PyDict(<< <<Str_metrics, PyDict(<<>>)>>,
              <<Str_model_name, PyStr(<<"a", "\"", "b", "\\", "\n", " ", "{">>)>>,
              <<<<"o", "k">>, PyBool(TRUE)>> >>),
    PyDict(<< <<<<"o", "k">>, PyBool(TRUE)>>,
              <<Str_model_name, PyStr(<<"a", "\"", "b", "\\", "\n", " ", "{">>)>>,
              <<Str_metrics, PyDict(<<>>)>> >>) }

StoreInit ==
  /\ KeyIdle
  /\ DagIdle
  /\ ConcIdle
  /\ ToolIdle
  /\ bucket \in BOOLEAN
  /\ objects = NoObjects
  /\ files = [p \in Paths |->
                IF p = "model1" THEN File(<<"M", "1">>)
                ELSE IF p = "model2" THEN File(<<"M", "2">>)
                ELSE NoFile]
  /\ cacheReady = FALSE
  /\ last = NoCall
  /\ saved = {}
  /\ lastPut = NoObjects

Construct ==
  \E f \in {"none", "client", "head_bucket_conn", "head_bucket_err", "create_bucket"} :
     With(MinIOCache_init(World, f),
          LAMBDA r :
           /\ Leave(r)
           /\ cacheReady' = (cacheReady \/ r.exc = "none")
           /\ last' = [op |-> "init", f |-> f, exc |-> r.exc]
           /\ UNCHANGED <<keyVars, toolVars, dagVars, concVars, saved, lastPut>>)

Upload ==
  /\ cacheReady
  /\ \E local_path \in {"model1", "model2"}, key \in ApiKeys,
        f \in {"none", "upload_file"} :
       With(upload(World, local_path, key, f),
            LAMBDA r :
             /\ Leave(r)
             /\ last' = [op |-> "upload", key |-> key, f |-> f, exc |-> r.exc,
                         ret |-> r.ret,
                         prev |-> IF key \in DOMAIN objects THEN <<objects[key]>>
                                  ELSE <<>>]
             /\ lastPut' = IF r.exc = "none"
                             THEN PutObject(lastPut, key,
                                            [kind |-> "upload",
                                             body |-> files[local_path].data])
                             ELSE lastPut)
  /\ UNCHANGED <<keyVars, toolVars, dagVars, concVars, cacheReady, saved>>

Download ==
  /\ cacheReady
  /\ \E key \in ApiKeys, f \in {"none", "download_file"} :
       With(download(World, key, "dest", f),
            LAMBDA r :
             /\ Leave(r)
             /\ last' = [op |-> "download", key |-> key, f |-> f, exc |-> r.exc,
                         ret |-> r.ret])
  /\ UNCHANGED <<keyVars, toolVars, dagVars, concVars, cacheReady, saved, lastPut>>

PutJson ==
  /\ cacheReady
  /\ \E key \in ApiKeys, data \in JsonDocs, f \in {"none", "put_object"} :
       With(put_json(World, key, data, f),
            LAMBDA r :
             /\ Leave(r)
             /\ last' = [op |-> "put_json", key |-> key, f |-> f, exc |-> r.exc,
                         ret |-> r.ret]
             /\ lastPut' = IF r.exc = "none"
                             THEN PutObject(lastPut, key,
                                            [kind |-> "put_json", body |-> data])
                             ELSE lastPut)
  /\ UNCHANGED <<keyVars, toolVars, dagVars, concVars, cacheReady, saved>>

GetJson ==
  /\ cacheReady
  /\ \E key \in ApiKeys, f \in {"none", "get_object"} :
       With(get_json(World, key, f),
            LAMBDA r :
             /\ Leave(r)
             /\ last' = [op |-> "get_json", key |-> key, f |-> f, exc |-> r.exc,
                         ret |-> r.ret])
  /\ UNCHANGED <<keyVars, toolVars, dagVars, concVars, cacheReady, saved, lastPut>>

StoreNext == Construct \/ Upload \/ Download \/ PutJson \/ GetJson

SpecStore == StoreInit /\ [][StoreNext]_vars

(***************************************************************************)
(* The cache functions: clients probe with check_cache and                 *)
(* check_model_cache and store with save_model_to_cache, for one model     *)
(* name and a few parameter dicts, while the data file changes under them. *)
(***************************************************************************)
Str_rf == <<"r", "f">>

\* the parameter dicts that are stored, and those that are probed
SavedParams == { PyDict(<< <<<<"a">>, PyInt(1)>>, <<<<"b">>, PyInt(1)>> >>) }

ProbedParams ==
  SavedParams \cup { PyDict(<< <<<<"a">>, PyInt(1)>>, <<<<"b">>, PyStr(<<"1">>)>> >>) }

Metrics1 == PyDict(<< <<Str_r2_score, PyFloat(FALSE, 0, <<"8", "7">>)>> >>)

\* the states the data file can be in
DataFiles ==
  {NoFile} \cup { [st |-> st, data |-> d] : st \in {"ok", "unreadable"},
                                            d \in DataContents }

CacheInit ==
  /\ KeyIdle
  /\ DagIdle
  /\ ConcIdle
  /\ ToolIdle
  /\ bucket \in BOOLEAN
  /\ objects = NoObjects
  /\ files = [p \in Paths |->
                IF p = "model1" THEN File(<<"M", "1">>)
                ELSE IF p = "data" THEN File(<<"1", " ", "2">>)
                ELSE NoFile]
  /\ cacheReady = FALSE
  /\ last = NoCall
  /\ saved = {}
  /\ lastPut = NoObjects

\* cache = MinIOCache(); cache.check_cache(prefix, params, data_path)
CheckCache ==
  \E params \in ProbedParams,
     f \in {"none", "client", "head_bucket_conn", "create_bucket",
            "head_object_conn", "head_object_err"} :
     With(Try(MinIOCache_init(World, f),
              LAMBDA cache :
                check_cache(cache.w, ModelPrefix(Str_rf), params, "data", f)),
          LAMBDA r :
           /\ Leave(r)
           /\ last' = [op |-> "check_cache", params |-> params, f |-> f,
                       data |-> files["data"], exc |-> r.exc, ret |-> r.ret]
           /\ UNCHANGED <<keyVars, toolVars, dagVars, concVars, cacheReady, saved, lastPut>>)

CheckModelCache ==
  \E params \in ProbedParams, f \in {"none", "head_object_conn", "head_object_err"} :
     With(check_model_cache(World, Str_rf, params, "data", f),
          LAMBDA r :
           /\ Leave(r)
           /\ last' = [op |-> "check_model_cache", params |-> params, f |-> f,
                       data |-> files["data"], exc |-> r.exc, ret |-> r.ret]
           /\ UNCHANGED <<keyVars, toolVars, dagVars, concVars, cacheReady, saved, lastPut>>)

SaveModelToCache ==
  \E params \in SavedParams,
     f \in {"none", "client", "head_bucket_conn", "create_bucket",
            "upload_file", "put_object"} :
     With(save_model_to_cache(World, "model1", Str_rf, params, "data",
                              Metrics1, f),
          LAMBDA r :
           /\ Leave(r)
           /\ last' = [op |-> "save_model_to_cache", params |-> params, f |-> f,
                       data |-> files["data"], exc |-> r.exc, ret |-> r.ret]
           /\ saved' = IF r.exc = "none"
                         THEN saved \cup {[params |-> params, data |-> files["data"]]}
                         ELSE saved
           /\ UNCHANGED <<keyVars, toolVars, dagVars, concVars, cacheReady, lastPut>>)

\* the data file is replaced, removed or made unreadable
ChangeData ==
  \E d \in DataFiles :
     /\ d # files["data"]
     /\ files' = [files EXCEPT !["data"] = d]
     /\ last' = [op |-> "change_data"]
     /\ UNCHANGED <<keyVars, toolVars, dagVars, concVars, bucket, objects, cacheReady, saved, lastPut>>

CacheNext == CheckCache \/ CheckModelCache \/ SaveModelToCache \/ ChangeData

SpecCache == CacheInit /\ [][CacheNext]_vars

(***************************************************************************)
(* One run of the boston_housing_cached DAG against a bucket that earlier  *)
(* runs and other clients of the cache may have written to.  Each task     *)
(* attempt is one step; the scheduler's rules (trigger rules, retries,     *)
(* short-circuit) decide which task may run.                               *)
(***************************************************************************)
retries == 1

Upstream(t) ==
  CASE t = "download_data"    -> {}
    [] t = "check_cache"      -> {"download_data"}
    [] t = "train_model"      -> {"download_data", "check_cache"}
    [] t = "save_to_cache"    -> {"train_model"}
    [] t = "use_cached_model" -> {"download_data"}
    [] t = "generate_summary" -> {"download_data", "use_cached_model", "save_to_cache"}

TriggerRule(t) ==
  CASE t = "use_cached_model" -> "none_failed"
    [] t = "generate_summary" -> "none_failed_min_one_success"
    [] OTHER                  -> "all_success"

ShortCircuited_none == {}

\* every task downstream of check_cache
ShortCircuited == {"train_model", "save_to_cache", "generate_summary"}

Finished(t) == ti[t] \in {"success", "failed", "skipped", "upstream_failed"}

UpstreamFailed(t) == \E u \in Upstream(t) : ti[u] \in {"failed", "upstream_failed"}

\* the task may be handed to a worker
Runnable(t) ==
  /\ ti[t] \in {"none", "up_for_retry"}
  /\ \A u \in Upstream(t) : Finished(u)
  /\ CASE TriggerRule(t) = "all_success" ->
            \A u \in Upstream(t) : ti[u] = "success"
       [] TriggerRule(t) = "none_failed" ->
            ~UpstreamFailed(t)
       [] TriggerRule(t) = "none_failed_min_one_success" ->
            ~UpstreamFailed(t) /\ \E u \in Upstream(t) : ti[u] = "success"

Started == tries["download_data"] > 0

DagKey(file) ==
  get_cache_key(ModelPrefix(Str_random_forest_cached), MODEL_PARAMS,
                IF file.st = "ok" THEN PyStr(FileHashMemo[file.data]) ELSE PyNone)

DagInit ==
  /\ KeyIdle
  /\ bucket = FALSE
  /\ objects = NoObjects
  /\ files \in { [p \in Paths |-> IF p = "data" THEN d ELSE NoFile] :
                   d \in { NoFile, File(<<"1", " ", "2">>),
                           [st |-> "unreadable", data |-> <<"1", " ", "2">>] } }
  /\ cacheReady = FALSE
  /\ last = NoCall
  /\ saved = {}
  /\ lastPut = NoObjects
  /\ DagIdle
  /\ ConcIdle
  /\ ToolIdle

\* the outcome of an attempt of task t with fault f
Finish(t, f, r) ==
  /\ Leave(r)
  /\ tries' = [tries EXCEPT ![t] = @ + 1]
  /\ dagLog' = [dagLog EXCEPT ![t] = [f |-> f, pre |-> World, reads |-> r.reads]]
  /\ xcom' = IF r.exc = "none" THEN [xcom EXCEPT ![t] = r.ret] ELSE xcom

Settle(t, r) ==
  IF r.exc = "none" THEN "success"
  ELSE IF tries[t] < retries THEN "up_for_retry"
  ELSE "failed"

PriorData == <<"1", " ", "2">>

\* an earlier run has stored its model, on a worker whose data file held
\* PriorData
PriorSave ==
  /\ ~Started
  /\ With(save_model_to_cache(
            [World EXCEPT !.files["data"] = File(PriorData),
                          !.files["model1"] = File(PickledModel(PriorData))],
            "model1", Str_random_forest_cached, MODEL_PARAMS, "data",
            FitMetrics(PriorData), "none"),
          LAMBDA r :
           /\ bucket' = r.w.bucket
           /\ objects' = r.w.objects)
  /\ UNCHANGED <<keyVars, toolVars, dagVars, concVars, files, cacheReady, last, saved, lastPut>>

\* a client has uploaded a model under a cache key itself:
\* cache.upload(model_path, cache_key)
PriorUpload ==
  /\ ~Started
  /\ With(Try(MinIOCache_init(
                  [World EXCEPT !.files["model1"] =
                                   File(PickledModel(PriorData))], "none"),
              LAMBDA cache :
                upload(cache.w, "model1", DagKey(File(PriorData)), "none")),
          LAMBDA r :
           /\ bucket' = r.w.bucket
           /\ objects' = r.w.objects)
  /\ UNCHANGED <<keyVars, toolVars, dagVars, concVars, files, cacheReady, last, saved, lastPut>>

DownloadData ==
  /\ Runnable("download_data")
  /\ \E response \in Responses, f \in {"none", "urlopen"} :
       With(download_data(World, response, f),
            LAMBDA r :
             /\ Finish("download_data", f, r)
             /\ ti' = [ti EXCEPT !["download_data"] = Settle("download_data", r)])
  /\ UNCHANGED <<keyVars, toolVars, concVars, cacheReady, last, saved, lastPut, gcm>>

\* ShortCircuitOperator: a false result skips every downstream task
CheckCacheTask ==
  /\ Runnable("check_cache")
  /\ \E f \in {"none", "head_bucket_conn", "head_object_conn", "head_object_err"} :
       With(check_cache_exists(World, xcom["download_data"], f),
            LAMBDA r :
             /\ Finish("check_cache", f, r)
             /\ ti' = [t \in Tasks |->
                         IF t = "check_cache" THEN Settle(t, r)
                         ELSE IF r.exc = "none" /\ ~r.ret.go /\ t \in ShortCircuited
                           THEN "skipped"
                         ELSE ti[t]])
  /\ UNCHANGED <<keyVars, toolVars, concVars, cacheReady, last, saved, lastPut, gcm>>

TrainModel ==
  /\ Runnable("train_model")
  /\ \E f \in {"none", "train"} :
       With(train_model(World, xcom["download_data"], f),
            LAMBDA r :
             /\ Finish("train_model", f, r)
             /\ ti' = [ti EXCEPT !["train_model"] = Settle("train_model", r)])
  /\ UNCHANGED <<keyVars, toolVars, concVars, cacheReady, last, saved, lastPut, gcm>>

SaveToCache ==
  /\ Runnable("save_to_cache")
  /\ \E f \in {"none", "upload_file", "put_object"} :
       With(save_to_cache(World, xcom["train_model"], f),
            LAMBDA r :
             /\ Finish("save_to_cache", f, r)
             /\ ti' = [ti EXCEPT !["save_to_cache"] = Settle("save_to_cache", r)])
  /\ UNCHANGED <<keyVars, toolVars, concVars, cacheReady, last, saved, lastPut, gcm>>

UseCachedModel ==
  /\ Runnable("use_cached_model")
  /\ \E f \in {"none", "head_object_conn", "get_object"} :
       With(use_cached_model(World, xcom["download_data"], f),
            LAMBDA r :
             /\ Finish("use_cached_model", f, r)
             /\ ti' = [ti EXCEPT !["use_cached_model"] = Settle("use_cached_model", r)])
  /\ UNCHANGED <<keyVars, toolVars, concVars, cacheReady, last, saved, lastPut, gcm>>

GenerateSummary ==
  /\ Runnable("generate_summary")
  /\ With(Ok(World, generate_summary(xcom["download_data"],
                                     xcom["use_cached_model"],
                                     xcom["save_to_cache"])),
          LAMBDA r :
           /\ Finish("generate_summary", "none", r)
           /\ ti' = [ti EXCEPT !["generate_summary"] = "success"])
  /\ UNCHANGED <<keyVars, toolVars, concVars, cacheReady, last, saved, lastPut, gcm>>

\* the scheduler marks a task that can no longer run
Propagate ==
  /\ \E t \in Tasks :
       /\ ti[t] = "none"
       /\ \A u \in Upstream(t) : Finished(u)
       /\ ~Runnable(t)
       /\ ti' = [ti EXCEPT ![t] = IF UpstreamFailed(t) THEN "upstream_failed"
                                  ELSE "skipped"]
  /\ UNCHANGED <<keyVars, toolVars, concVars, storeVars, tries, xcom, dagLog, gcm>>

\* after the run, a consumer fetches the model with the plugin's
\* get_cached_model
GetCachedModel ==
  /\ \A t \in Tasks : Finished(t)
  /\ gcm = NoCall
  /\ \E f \in {"none", "download_file"} :
       With(get_cached_model(World, Str_random_forest_cached, MODEL_PARAMS,
                             "data", "dest", f),
            LAMBDA r :
             /\ Leave(r)
             /\ gcm' = [op |-> "get_cached_model", f |-> f, pre |-> World,
                        exc |-> r.exc, ret |-> r.ret, reads |-> r.reads])
  /\ UNCHANGED <<keyVars, toolVars, concVars, cacheReady, last, saved, lastPut, ti, tries, xcom, dagLog>>

DagNext ==
  \/ PriorSave
  \/ PriorUpload
  \/ DownloadData
  \/ CheckCacheTask
  \/ TrainModel
  \/ SaveToCache
  \/ UseCachedModel
  \/ GenerateSummary
  \/ Propagate
  \/ GetCachedModel

SpecDag == DagInit /\ [][DagNext]_vars

(***************************************************************************)
(* Every operation of the cache on one bucket: the calls of the store      *)
(* interface together with check_cache and save_model_to_cache.            *)
(***************************************************************************)
OpsInit ==
  /\ KeyIdle
  /\ DagIdle
  /\ ConcIdle
  /\ ToolIdle
  /\ bucket \in BOOLEAN
  /\ objects = NoObjects
  /\ files = [p \in Paths |->
                IF p = "model1" THEN File(<<"M", "1">>)
                ELSE IF p = "model2" THEN File(<<"M", "2">>)
                ELSE IF p = "data" THEN File(<<"1", " ", "2">>)
                ELSE NoFile]
  /\ cacheReady = FALSE
  /\ last = NoCall
  /\ saved = {}
  /\ lastPut = NoObjects

OpsNext ==
  \/ Construct
  \/ Upload
  \/ Download
  \/ PutJson
  \/ GetJson
  \/ CheckCache
  \/ SaveModelToCache

SpecOps == OpsInit /\ [][OpsNext]_vars

(***************************************************************************)
(* Two independent processes, each running check_cache and then            *)
(* save_model_to_cache on the same bucket.  A step is one call of the      *)
(* store client: head_bucket, create_bucket, head_object, upload_file,     *)
(* put_object; what lies between two calls is local to the process.  The   *)
(* store refuses create_bucket for a bucket that exists.                   *)
(***************************************************************************)
Procs == {1, 2}

\* what the first process stores, and what the second may store: the same
\* model and params (the same key) with other bytes, other params, or
\* another model name
Config1 ==
  [model_name |-> Str_rf, params |-> CHOOSE q \in SavedParams : TRUE,
   data |-> <<"1", " ", "2">>, model |-> <<"M", "1">>, metrics |-> Metrics1]

Configs2 ==
  { [Config1 EXCEPT !.model = <<"M", "2">>,
                    !.metrics = FitMetrics(<<"1", " ", "3">>)],
    [Config1 EXCEPT !.model = <<"M", "2">>,
                    !.params = CHOOSE q \in ProbedParams \ SavedParams : TRUE],
    [Config1 EXCEPT !.model = <<"M", "2">>,
                    !.model_name = Str_random_forest_cached] }

NewProc(c) == [pc |-> "check_head_bucket", cfg |-> c, exists |-> FALSE, seq |-> 0]

\* the key the process derives, in check_cache and in save_model_to_cache
ProcKey(c) ==
  get_cache_key(ModelPrefix(c.model_name), c.params, PyStr(FileHashMemo[c.data]))

\* the metadata document of save_model_to_cache
ProcMetadata(c) ==
  PyDict(<< <<Str_model_name, PyStr(c.model_name)>>,
            <<Str_params, c.params>>,
            <<Str_data_hash, PyStr(FileHashMemo[c.data])>>,
            <<Str_metrics, c.metrics>> >>)

ConcInit ==
  /\ KeyIdle
  /\ ToolIdle
  /\ DagIdle
  /\ \E b \in BOOLEAN, o \in {NoObjects, PutObject(NoObjects, <<"k", "1">>, <<"M", "1">>)} :
        /\ b \/ o = NoObjects
        /\ bucket = b
        /\ objects = o
  /\ files = [p \in Paths |-> NoFile]
  /\ cacheReady = FALSE
  /\ last = NoCall
  /\ saved = {}
  /\ lastPut = NoObjects
  /\ procs \in { [p \in Procs |-> NewProc(IF p = 1 THEN Config1 ELSE c)] : c \in Configs2 }

\* the call that follows the constructor
AfterInit(pc) ==
  IF pc \in {"check_head_bucket", "check_create_bucket"} THEN "head_object"
  ELSE "upload_file"

\* _ensure_bucket_exists: self.client.head_bucket(Bucket=...)
HeadBucket(p) ==
  /\ procs[p].pc \in {"check_head_bucket", "save_head_bucket"}
  /\ procs' = [procs EXCEPT ![p].pc =
                  IF bucket THEN AfterInit(@)
                  ELSE IF @ = "check_head_bucket" THEN "check_create_bucket"
                  ELSE "save_create_bucket"]
  /\ UNCHANGED <<keyVars, toolVars, storeVars, dagVars>>

\* _ensure_bucket_exists: except ClientError: self.client.create_bucket(...);
\* its ClientError leaves the constructor and the function that called it
CreateBucket(p) ==
  /\ procs[p].pc \in {"check_create_bucket", "save_create_bucket"}
  /\ procs' = [procs EXCEPT ![p].pc = IF bucket THEN "failed" ELSE AfterInit(@)]
  /\ bucket' = TRUE
  /\ UNCHANGED <<keyVars, toolVars, dagVars, objects, files, cacheReady, last, saved, lastPut>>

\* exists: self.client.head_object(Bucket=..., Key=cache_key)
HeadObject(p) ==
  /\ procs[p].pc = "head_object"
  /\ procs' = [procs EXCEPT ![p].pc = "save_head_bucket",
                            ![p].exists = exists(World, ProcKey(procs[p].cfg), "none").ret]
  /\ UNCHANGED <<keyVars, toolVars, storeVars, dagVars>>

\* upload: self.client.upload_file(local_path, bucket, cache_key + ".pkl")
UploadFile(p) ==
  /\ procs[p].pc = "upload_file"
  /\ objects' = upload([World EXCEPT !.files["model1"] = File(procs[p].cfg.model)],
                       "model1", ProcKey(procs[p].cfg) \o PklSuffix, "none").w.objects
  /\ procs' = [procs EXCEPT ![p].pc = "put_object",
                            ![p].seq = 1 + Cardinality({q \in Procs : procs[q].seq > 0})]
  /\ UNCHANGED <<keyVars, toolVars, dagVars, bucket, files, cacheReady, last, saved, lastPut>>

\* put_json: self.client.put_object(Key=cache_key + "_metadata.json", ...)
PutMetadata(p) ==
  /\ procs[p].pc = "put_object"
  /\ objects' = put_json(World, ProcKey(procs[p].cfg) \o MetadataSuffix,
                         ProcMetadata(procs[p].cfg), "none").w.objects
  /\ procs' = [procs EXCEPT ![p].pc = "done"]
  /\ UNCHANGED <<keyVars, toolVars, dagVars, bucket, files, cacheReady, last, saved, lastPut>>

ConcNext ==
  \E p \in Procs :
     \/ HeadBucket(p)
     \/ CreateBucket(p)
     \/ HeadObject(p)
     \/ UploadFile(p)
     \/ PutMetadata(p)

SpecConc == ConcInit /\ [][ConcNext]_vars

(***************************************************************************)
(* One monitor over an empty history directory.  In SpecMon runs are       *)
(* started and ended by the methods and stages are started and ended; no   *)
(* time passes, so every history file carries the same modification time   *)
(* and a listing may give them in any order.  In SpecCtx runs are made by  *)
(* monitor.context() blocks whose body starts and ends stages (it does not *)
(* start or end runs), the history is read, and time passes between the    *)
(* calls or does not.                                                      *)
(***************************************************************************)
RunIds == {"a", "b"}

\* every start_stage call names a stage of its own
StageNameOf(n) == <<"stage", n>>

MaxHistories == {1, 2}

MaxRuns == 2

MaxStageCalls == 4

MaxTime == 1

DefaultLimit == 10

MonInit ==
  /\ KeyIdle
  /\ StoreIdle
  /\ DagIdle
  /\ ConcIdle
  /\ NtfIdle
  /\ AuxIdle
  /\ monitor \in { PipelineMonitor_init(pipeline_name, h) : h \in MaxHistories }
  /\ now = 0
  /\ started = 0
  /\ staged = 0
  /\ stageCalls = <<>>
  /\ ctx = NoContext
  /\ monLast = NoCall

Active == monitor.current_run # NoneValue

StartRun ==
  /\ ctx.state # "body"
  /\ started < MaxRuns
  /\ \E run_id \in RunIds :
       With(start_run(monitor, run_id), LAMBDA r :
         /\ monitor' = r.m
         /\ monLast' = [op |-> "start_run", run_id |-> run_id, ret |-> r.ret])
  /\ started' = started + 1
  /\ stageCalls' = <<>>
  /\ UNCHANGED <<keyVars, storeVars, dagVars, concVars, auxVars, ntfVars, now, staged, ctx>>

StartStage ==
  /\ staged < MaxStageCalls
  /\ staged' = staged + 1
  /\ \E stage_name \in {StageNameOf(staged + 1)} :
       With(start_stage(monitor, stage_name), LAMBDA r :
         /\ monitor' = r.m
         /\ monLast' = [op |-> "start_stage", stage_name |-> stage_name,
                        ret |-> r.ret, exc |-> r.exc]
         /\ stageCalls' = IF Active
                            THEN Append(stageCalls, [op |-> "start_stage",
                                                     stage_name |-> stage_name])
                          ELSE stageCalls)
  /\ UNCHANGED <<keyVars, storeVars, dagVars, concVars, auxVars, ntfVars, now, started, ctx>>

EndStage ==
  /\ staged < MaxStageCalls
  /\ staged' = staged + 1
  /\ \E success \in BOOLEAN :
       With(end_stage(monitor, success), LAMBDA r :
         /\ monitor' = r.m
         /\ monLast' = [op |-> "end_stage", success |-> success, ret |-> r.ret]
         /\ stageCalls' = IF Active
                            THEN Append(stageCalls, [op |-> "end_stage",
                                                     success |-> success])
                          ELSE stageCalls)
  /\ UNCHANGED <<keyVars, storeVars, dagVars, concVars, auxVars, ntfVars, now, started, ctx>>

EndRun ==
  /\ ctx.state # "body"
  /\ \E success \in BOOLEAN, save_history \in BOOLEAN,
        pos \in 1..(Len(monitor.history_dir) + 1) :
       With(end_run(monitor, success, save_history, now, pos), LAMBDA r :
         /\ monitor' = r.m
         /\ monLast' = [op |-> "end_run", success |-> success,
                        save_history |-> save_history, active |-> Active,
                        calls |-> stageCalls, ret |-> r.ret])
  /\ stageCalls' = <<>>
  /\ UNCHANGED <<keyVars, storeVars, dagVars, concVars, auxVars, ntfVars, now, started,
                 staged, ctx>>

\* with monitor.context(run_id=...):
Enter ==
  /\ ctx.state # "body"
  /\ started < MaxRuns
  /\ \E run_id \in RunIds :
       With(PipelineMonitorContext_enter(monitor, run_id), LAMBDA r :
         /\ monitor' = r.m
         /\ monLast' = [op |-> "enter", run_id |-> run_id, ret |-> r.ret]
         /\ ctx' = [state |-> "body", run_id |-> run_id, raised |-> FALSE,
                    ends |-> 0])
  /\ started' = started + 1
  /\ stageCalls' = <<>>
  /\ UNCHANGED <<keyVars, storeVars, dagVars, concVars, auxVars, ntfVars, now, staged>>

\* the body is left, by its end or by an exception
Exit ==
  /\ ctx.state = "body"
  /\ \E raised \in BOOLEAN, pos \in 1..(Len(monitor.history_dir) + 1) :
       With(PipelineMonitorContext_exit(monitor, raised, now, pos), LAMBDA r :
         /\ monitor' = r.m
         /\ monLast' = [op |-> "exit", raised |-> raised, ret |-> r.ret]
         /\ ctx' = [ctx EXCEPT !.state = "exited", !.raised = raised,
                               !.ends = IF Active THEN @ + 1 ELSE @])
  /\ stageCalls' = <<>>
  /\ UNCHANGED <<keyVars, storeVars, dagVars, concVars, auxVars, ntfVars, now, started,
                 staged>>

GetHistory ==
  /\ monLast' = [op |-> "get_history", limit |-> DefaultLimit,
                  ret |-> get_history(monitor, DefaultLimit)]
  /\ UNCHANGED <<keyVars, storeVars, dagVars, concVars, auxVars, ntfVars, monitor, now,
                 started, staged, stageCalls, ctx>>

\* the clock of the file system moves on
Tick ==
  /\ now < MaxTime
  /\ now' = now + 1
  /\ UNCHANGED <<keyVars, storeVars, dagVars, concVars, auxVars, ntfVars, monitor, started,
                 staged, stageCalls, ctx, monLast>>

MonNext ==
  \/ StartRun
  \/ StartStage
  \/ EndStage
  \/ EndRun

SpecMon == MonInit /\ [][MonNext]_vars

CtxNext ==
  \/ Enter
  \/ StartStage
  \/ EndStage
  \/ Exit
  \/ GetHistory
  \/ Tick

SpecCtx == MonInit /\ [][CtxNext]_vars

(***************************************************************************)
(* One notifier: it is constructed with a list of channels and notify is   *)
(* called on it, with formats of the caller's choice and with any of the   *)
(* channels unable to deliver.                                             *)
(***************************************************************************)
ChannelLists ==
  {<<>>, <<"file", "console", "minio">>}
    \cup { <<c>> : c \in NotificationChannels }
    \cup { <<c, d>> : c \in NotificationChannels, d \in NotificationChannels }

FormatLists == { <<>>, <<"json", "txt">>, <<"md">> }

NtfInit ==
  /\ KeyIdle
  /\ StoreIdle
  /\ DagIdle
  /\ ConcIdle
  /\ MonIdle
  /\ AuxIdle
  /\ channels \in { Notifier_init(c) : c \in ChannelLists }
  /\ reports_dir = {}
  /\ ntfLast = NoCall

Notify ==
  /\ \E formats \in FormatLists, fails \in SUBSET NotificationChannels :
       With(notify(channels, reports_dir, formats, fails), LAMBDA r :
         /\ reports_dir' = r.reports
         /\ ntfLast' = [op |-> "notify", formats |-> formats, fails |-> fails,
                        ret |-> r.results, attempted |-> r.attempted])
  /\ UNCHANGED <<keyVars, storeVars, dagVars, concVars, auxVars, monVars, channels>>

NtfNext == Notify

SpecNotify == NtfInit /\ [][NtfNext]_vars

(***************************************************************************)
(* The retry decorator applied to bounded inputs: a function whose         *)
(* invocations raise or return as a script says, wrapped with every        *)
(* max_retries up to MaxRetries and with two exception tuples.             *)
(***************************************************************************)
MaxRetries == 3

RaiseKinds == {"none", "TooManyRedirects", "ValueError"}

ExceptionTuples == {{"Exception"}, {"RequestException"}}

ReturnValue(i) == [status |-> "value", of |-> i]

\* the i-th invocation raises script[i], or returns a value of its own
FuncOf(script) ==
  [i \in 1..Len(script) |-> [raises |-> script[i], value |-> ReturnValue(i)]]

RetryInit ==
  /\ KeyIdle
  /\ StoreIdle
  /\ DagIdle
  /\ ConcIdle
  /\ MonIdle
  /\ NtfIdle
  /\ HealthIdle
  /\ SharedIdle
  /\ rtLast = NoCall

WrappedCall ==
  \E max_retries \in 0..MaxRetries, exceptions \in ExceptionTuples,
     script \in [1..MaxRetries -> RaiseKinds] :
    /\ rtLast' = [op |-> "wrapper", max_retries |-> max_retries,
                  exceptions |-> exceptions, func |-> FuncOf(script),
                  r |-> retry_with_backoff(max_retries, exceptions, FuncOf(script))]
    /\ UNCHANGED <<keyVars, storeVars, dagVars, concVars, monVars, ntfVars, healthVars,
                   sharedVars>>

RetryNext == WrappedCall

SpecRetry == RetryInit /\ [][RetryNext]_vars

(***************************************************************************)
(* One HealthChecker object, its two methods called in any order, in       *)
(* surroundings that may differ from call to call.                         *)
(***************************************************************************)
HttpResponses == {"200", "500", "Timeout", "TooManyRedirects"}

\* what a URL answers to the requests of one check: the second request is
\* made only after a first one that raised a RequestException
ResponseScripts ==
  {<<r>> : r \in HttpResponses \ {"TooManyRedirects"}}
    \cup {<<"TooManyRedirects", r>> : r \in {"200", "TooManyRedirects"}}

HttpEnvs ==
  {[config |-> "ok", responses |-> s] : s \in ResponseScripts}
    \cup {[config |-> "ValueError", responses |-> <<>>]}

BucketOutcomes == {"ok", "ClientError", "EndpointConnectionError"}

DvcOutcomes == {"ok", "returncode", "TimeoutExpired"}

\* head_bucket is called only after a healthy answer of the MinIO URL
MinioEnvs ==
  {m \in [http : HttpEnvs, bucket : BucketOutcomes] :
     \/ m.bucket = "ok"
     \/ /\ check_http("minio", m.http).exc = "none"
        /\ check_http("minio", m.http).ret.status = "healthy"}

Envs ==
  {[mlflow |-> a, minio |-> m.http, airflow |-> c, bucket |-> m.bucket, dvc |-> d] :
     a \in HttpEnvs, m \in MinioEnvs, c \in HttpEnvs, d \in DvcOutcomes}

AnyEnv ==
  [mlflow  |-> [config |-> "ok", responses |-> <<"200">>],
   minio   |-> [config |-> "ok", responses |-> <<"200">>],
   airflow |-> [config |-> "ok", responses |-> <<"200">>],
   bucket  |-> "ok", dvc |-> "ok"]

\* the services whose check raises in these surroundings
RaisedChecks(env) ==
  {ServiceNames[i] : i \in {j \in 1..Len(ServiceNames) :
                               Check(ServiceNames[j], env).exc # "none"}}

HealthInit ==
  /\ KeyIdle
  /\ StoreIdle
  /\ DagIdle
  /\ ConcIdle
  /\ MonIdle
  /\ NtfIdle
  /\ RetryIdle
  /\ SharedIdle
  /\ results = <<>>
  /\ hcLast = NoCall

CheckAll ==
  \E env \in Envs :
    /\ With(check_all(env), LAMBDA rs :
         /\ results' = rs
         /\ hcLast' = [op |-> "check_all", raised |-> RaisedChecks(env), ret |-> rs])
    /\ UNCHANGED <<keyVars, storeVars, dagVars, concVars, monVars, ntfVars, retryVars,
                   sharedVars>>

GetSummary ==
  \E env \in IF results = <<>> THEN Envs ELSE {AnyEnv} :
    /\ With(get_summary(results, env), LAMBDA r :
         /\ results' = r.results
         /\ hcLast' = [op |-> "get_summary",
                       raised |-> IF results = <<>> THEN RaisedChecks(env) ELSE {},
                       ret |-> r.ret])
    /\ UNCHANGED <<keyVars, storeVars, dagVars, concVars, monVars, ntfVars, retryVars,
                   sharedVars>>

HealthNext == CheckAll \/ GetSummary

SpecHealth == HealthInit /\ [][HealthNext]_vars

(***************************************************************************)
(* Two monitors of different pipelines that write their history into one   *)
(* directory.  The files of the directory are the variable history_dir;    *)
(* each call sees them as the directory of its monitor.  The second        *)
(* pipeline is named either "test_training", which begins with the name    *)
(* of the first and a "_", or "other".                                     *)
(***************************************************************************)
FirstName == <<"test">>

SecondNames == {<<"test", "training">>, <<"other">>}

SharedInit ==
  /\ KeyIdle
  /\ StoreIdle
  /\ DagIdle
  /\ ConcIdle
  /\ MonIdle
  /\ NtfIdle
  /\ RetryIdle
  /\ HealthIdle
  /\ monitors \in { <<PipelineMonitor_init(FirstName, h1), PipelineMonitor_init(name, h2)>> :
                      h1 \in MaxHistories, h2 \in MaxHistories, name \in SecondNames }
  /\ history_dir = <<>>
  /\ shLast = NoCall

\* the monitor as the call sees it
InDir(m, dir) == [m EXCEPT !.history_dir = dir]

SharedStartRun ==
  /\ started < MaxRuns
  /\ started' = started + 1
  /\ \E i \in 1..Len(monitors), run_id \in RunIds :
       With(start_run(InDir(monitors[i], history_dir), run_id), LAMBDA r :
         /\ monitors' = [monitors EXCEPT ![i] = InDir(r.m, <<>>)]
         /\ history_dir' = r.m.history_dir
         /\ shLast' = [op |-> "start_run", by |-> i, ret |-> r.ret])
  /\ UNCHANGED <<keyVars, storeVars, dagVars, concVars, ntfVars, retryVars, healthVars,
                 monitor, now, staged, stageCalls, ctx, monLast>>

SharedEndRun ==
  /\ \E i \in 1..Len(monitors), success \in BOOLEAN, save_history \in BOOLEAN,
        pos \in 1..(Len(history_dir) + 1) :
       With(end_run(InDir(monitors[i], history_dir), success, save_history, now, pos),
            LAMBDA r :
         /\ monitors' = [monitors EXCEPT ![i] = InDir(r.m, <<>>)]
         /\ history_dir' = r.m.history_dir
         /\ shLast' = [op |-> "end_run", by |-> i, save_history |-> save_history,
                       ret |-> r.ret])
  /\ UNCHANGED <<keyVars, storeVars, dagVars, concVars, ntfVars, retryVars, healthVars,
                 monVars>>

SharedNext == SharedStartRun \/ SharedEndRun \/ Tick

SpecShared == SharedInit /\ [][SharedNext]_vars

(***************************************************************************)
(* Claims about the key derivation.                                        *)
(***************************************************************************)

\* C1: get_cache_key is a function of (prefix, params, data_hash) alone:
\* two calls whose params hold the same key/value pairs, in whatever
\* insertion order, with the same data_hash, return the same key.
C1_KeyDeterministic ==
  \A i, j \in 1..Len(keyCalls) :
     ( /\ DictEq(keyCalls[i].params, keyCalls[j].params)
       /\ keyCalls[i].data_hash = keyCalls[j].data_hash )
     => keyCalls[i].key = keyCalls[j].key

\* two calls with the same two pairs inserted in opposite orders
C1_Witness ==
  \E i, j \in 1..Len(keyCalls) :
     /\ Len(keyCalls[i].params.v) = 2
     /\ keyCalls[i].params # keyCalls[j].params
     /\ DictEq(keyCalls[i].params, keyCalls[j].params)
     /\ keyCalls[i].data_hash = keyCalls[j].data_hash
     /\ keyCalls[i].key = keyCalls[j].key

\* C2: the key is prefix_digest_fingerprint whenever a fingerprint string is
\* supplied, and prefix_digest only when the fingerprint is absent (None).
C2_KeyFormat ==
  \A i \in 1..Len(keyCalls) :
     LET c      == keyCalls[i]
         digest == compute_params_hash(c.params)
     IN  c.key = IF c.data_hash.t = "str"
                   THEN keyPrefix \o <<"_">> \o digest \o <<"_">> \o c.data_hash.v
                   ELSE keyPrefix \o <<"_">> \o digest

\* C3: under one prefix, two calls that differ in a parameter value or in
\* the data fingerprint (absent and present included) get different keys.
C3_KeyUnique ==
  \A i, j \in 1..Len(keyCalls) :
     ( \/ ~DictEq(keyCalls[i].params, keyCalls[j].params)
       \/ keyCalls[i].data_hash # keyCalls[j].data_hash )
     => keyCalls[i].key # keyCalls[j].key

(***************************************************************************)
(* Claims about the store interface.                                       *)
(***************************************************************************)

\* C10: a download of key k, when the latest write to k was an upload,
\* succeeds (absent an injected failure) and leaves at the destination
\* exactly the bytes of the uploaded file; a get_json of k, when the latest
\* write to k was a put_json of d, succeeds and returns a document with the
\* keys and values of d.
C10_RoundTrip ==
  /\ ( /\ last.op = "download"
       /\ last.key \in DOMAIN lastPut
       /\ lastPut[last.key].kind = "upload" )
     => /\ last.f = "none" => last.exc = "none"
        /\ last.exc = "none" => files["dest"] = File(lastPut[last.key].body)
  /\ ( /\ last.op = "get_json"
       /\ last.key \in DOMAIN lastPut
       /\ lastPut[last.key].kind = "put_json" )
     => /\ last.f = "none" => last.exc = "none"
        /\ last.exc = "none" => PyEq(last.ret, lastPut[last.key].body)

\* a downloaded upload lies at the destination, and a get_json has just
\* returned a nested document that put_json stored
C10_Witness ==
  /\ \E k \in DOMAIN lastPut :
        lastPut[k].kind = "upload" /\ files["dest"] = File(lastPut[k].body)
  /\ last.op = "get_json"
  /\ last.exc = "none"
  /\ last.key \in DOMAIN lastPut
  /\ lastPut[last.key].kind = "put_json"
  /\ Len(lastPut[last.key].body.v) > 2
  /\ PyEq(last.ret, lastPut[last.key].body)

\* C11: two documents with the same keys and values, whatever the order in
\* which their keys were inserted, are stored by put_json as the same bytes.
C11_CanonicalPutJson ==
  \A k1, k2 \in DOMAIN lastPut :
     ( /\ lastPut[k1].kind = "put_json"
       /\ lastPut[k2].kind = "put_json"
       /\ PyEq(lastPut[k1].body, lastPut[k2].body) )
     => objects[k1] = objects[k2]

\* C12: a get_json of a key under which the store holds nothing raises the
\* not-found error NoSuchKey, which a failure to reach the store never
\* raises; it returns no document and leaves bucket and objects as they
\* were.
C12_GetJsonNotFound ==
  [][ last'.op = "get_json"
      => /\ last'.exc = "NoSuchKey"
              <=> (last'.f = "none" /\ last'.key \notin DOMAIN objects)
         /\ last'.key \notin DOMAIN objects
              => /\ last'.exc # "none"
                 /\ last'.ret = PyNone
                 /\ objects' = objects
                 /\ bucket' = bucket ]_vars

\* get_json has just failed with NoSuchKey on one key while the store holds
\* an object under the other
C12_Witness ==
  /\ last.op = "get_json"
  /\ last.exc = "NoSuchKey"
  /\ last.key \notin DOMAIN objects
  /\ objects # NoObjects

(***************************************************************************)
(* Claims about probing and storing.                                       *)
(***************************************************************************)

\* C5: a check_cache for inputs under which nothing was stored reports
\* exists = false, and a check_cache that follows a completed
\* save_model_to_cache for the same params and the same, unchanged data
\* file reports exists = true.
C5_MissThenHit ==
  ( /\ last.op = "check_cache"
    /\ last.f = "none"
    /\ last.data.st # "unreadable" )
  => /\ last.exc = "none"
     /\ last.ret.exists
          <=> [params |-> last.params, data |-> last.data] \in saved

\* C9: what check_cache reports for a key is the presence of the artifact
\* object '<key>.pkl' that save_model_to_cache writes, whether or not the
\* metadata object exists.
C9_ArtifactIsHitSignal ==
  ( /\ last.op = "check_cache"
    /\ last.f = "none"
    /\ last.exc = "none" )
  => ( last.ret.exists
         <=> (last.ret.cache_key \o PklSuffix) \in DOMAIN objects )

\* C17: with the data file missing or unreadable, check_cache and
\* save_model_to_cache do not raise (no store call failing) and both work
\* with the key prefix_paramsdigest, which has no fingerprint part.
C17_FallbackKey ==
  ( /\ last.op \in {"check_cache", "save_model_to_cache"}
    /\ last.f = "none"
    /\ last.data.st \in {"absent", "unreadable"} )
  => /\ last.exc = "none"
     /\ last.op = "check_cache"
          => last.ret.cache_key =
               ModelPrefix(Str_rf) \o <<"_">> \o compute_params_hash(last.params)
     /\ last.op = "save_model_to_cache"
          => last.ret =
               S3Uri(ModelPrefix(Str_rf) \o <<"_">>
                     \o compute_params_hash(last.params) \o PklSuffix)

(***************************************************************************)
(* Claims about the life of the objects.                                   *)
(***************************************************************************)

\* the keys that a step creates or whose content it changes
Written == { k \in DOMAIN objects' : k \notin DOMAIN objects \/ objects'[k] # objects[k] }

\* the key save_model_to_cache derives in the call that last records
SavedKey(call) ==
  get_cache_key(ModelPrefix(Str_rf), call.params,
                IF call.data.st = "ok" THEN PyStr(FileHashMemo[call.data.data])
                ELSE PyNone)

\* C13: no operation removes an object, and none changes the bytes held
\* under a key that is already present.
C13_NeverReplaced ==
  [][ \A k \in DOMAIN objects : k \in DOMAIN objects' /\ objects'[k] = objects[k] ]_vars

\* C13, amended: no operation removes an object; the constructor, check_cache,
\* download and get_json write nothing; upload and put_json write their key
\* only, and save_model_to_cache only '<key>.pkl' and '<key>_metadata.json';
\* a write is unconditional: after it the key holds the bytes just written,
\* whatever it held before.
C13_OverwrittenNeverRemoved ==
  [][ /\ \A k \in DOMAIN objects : k \in DOMAIN objects'
      /\ last'.op \in {"init", "check_cache", "download", "get_json"} => Written = {}
      /\ last'.op = "upload"
           => /\ Written \subseteq {last'.key}
              /\ last'.exc = "none"
                   => objects'[last'.key] = lastPut'[last'.key].body
      /\ last'.op = "put_json"
           => /\ Written \subseteq {last'.key}
              /\ last'.exc = "none"
                   => objects'[last'.key] =
                        json_dumps(lastPut'[last'.key].body, FALSE, <<2>>)
      /\ last'.op = "save_model_to_cache"
           => /\ Written \subseteq { SavedKey(last') \o PklSuffix,
                                      SavedKey(last') \o MetadataSuffix }
              /\ last'.exc = "none"
                   => objects'[SavedKey(last') \o PklSuffix] = files["model1"].data
    ]_vars

\* an upload has just replaced the bytes that its key held by other bytes
C13_Witness ==
  /\ last.op = "upload"
  /\ last.exc = "none"
  /\ last.prev # <<>>
  /\ last.prev[1] # objects[last.key]

\* the key ends with the suffix
EndsWith(k, suffix) ==
  Len(k) >= Len(suffix) /\ SubSeq(k, Len(k) - Len(suffix) + 1, Len(k)) = suffix

\* the key of the artifact that belongs to a metadata key
ArtifactOf(k) == SubSeq(k, 1, Len(k) - Len(MetadataSuffix)) \o PklSuffix

\* C26: in every state of the store that executions of save_model_to_cache
\* reach, those that fail part-way included, an object
\* '<key>_metadata.json' is there only if the object '<key>.pkl' is there.
C26_MetadataImpliesArtifact ==
  \A k \in DOMAIN objects :
    EndsWith(k, MetadataSuffix) => ArtifactOf(k) \in DOMAIN objects

\* the converse does not hold: a save whose put_object failed has left the
\* artifact without its metadata
C26_Witness ==
  /\ last.op = "save_model_to_cache"
  /\ last.f = "put_object"
  /\ last.exc # "none"
  /\ SavedKey(last) \o PklSuffix \in DOMAIN objects
  /\ SavedKey(last) \o MetadataSuffix \notin DOMAIN objects
  /\ \E k \in DOMAIN objects : EndsWith(k, MetadataSuffix)

(***************************************************************************)
(* Claims about concurrent processes.                                      *)
(***************************************************************************)

\* the two processes store different parameter sets or different models
DifferentInputs ==
  \/ ~PyEq(procs[1].cfg.params, procs[2].cfg.params)
  \/ procs[1].cfg.model_name # procs[2].cfg.model_name

ArtifactKey(p) == ProcKey(procs[p].cfg) \o PklSuffix

MetadataKey(p) == ProcKey(procs[p].cfg) \o MetadataSuffix

\* C14: two processes with different parameter sets or different model names
\* write disjoint keys; however their calls interleave, what a process has
\* written stays as it wrote it, and once both are done the store holds both
\* artifacts and both metadata documents.
C14_DisjointKeys ==
  (procs # <<>> /\ DifferentInputs)
  => /\ {ArtifactKey(1), MetadataKey(1)} \cap {ArtifactKey(2), MetadataKey(2)} = {}
     /\ \A p \in Procs :
          /\ procs[p].pc \in {"put_object", "done"}
               => /\ ArtifactKey(p) \in DOMAIN objects
                  /\ objects[ArtifactKey(p)] = procs[p].cfg.model
          /\ procs[p].pc = "done"
               => /\ MetadataKey(p) \in DOMAIN objects
                  /\ objects[MetadataKey(p)] =
                       json_dumps(ProcMetadata(procs[p].cfg), FALSE, <<2>>)

\* both processes, with different params, are done and the store holds the
\* artifact of each
C14_Witness ==
  /\ procs # <<>>
  /\ ~PyEq(procs[1].cfg.params, procs[2].cfg.params)
  /\ \A p \in Procs : procs[p].pc = "done"
  /\ objects[ArtifactKey(1)] = <<"M", "1">>
  /\ objects[ArtifactKey(2)] = <<"M", "2">>

\* the process whose upload_file completed last
LastUploader == CHOOSE p \in Procs : \A q \in Procs : procs[q].seq <= procs[p].seq

\* C15: two processes that store under the same key both complete without
\* error, and once both are done the artifact under the key is the one of
\* the upload that completed last.
C15_LastWriterWins ==
  (procs # <<>> /\ ~DifferentInputs)
  => /\ \A p \in Procs : procs[p].pc # "failed"
     /\ (\A p \in Procs : procs[p].pc = "done")
          => objects[ArtifactKey(1)] = procs[LastUploader].cfg.model

\* C16: every construction of MinIOCache succeeds, whether or not the bucket
\* exists and whatever another process does meanwhile; after it the bucket
\* exists and the objects it held are as they were.
C16_EnsureBucketIdempotent ==
  procs # <<>>
  => /\ \A p \in Procs :
          /\ procs[p].pc # "failed"
          /\ procs[p].pc \notin {"check_head_bucket", "check_create_bucket"} => bucket
     /\ \A k \in DOMAIN objects :
          k = <<"k", "1">> => objects[k] = <<"M", "1">>

\* the artifact and the metadata under the key of process p are the ones
\* that p wrote
PairOf(p) ==
  /\ objects[ArtifactKey(p)] = procs[p].cfg.model
  /\ objects[MetadataKey(p)] = json_dumps(ProcMetadata(procs[p].cfg), FALSE, <<2>>)

\* C27: once two executions of save_model_to_cache for the same key have
\* both completed, however their uploads and metadata writes interleave,
\* the artifact and the metadata under the key come from one execution.
C27_PairFromOneExecution ==
  (procs # <<>> /\ ~DifferentInputs /\ \A p \in Procs : procs[p].pc = "done")
  => \E p \in Procs : PairOf(p)

(***************************************************************************)
(* Claims about the pipeline monitor.                                      *)
(***************************************************************************)
\* the calls are k start_stage / end_stage pairs, one after the other
Paired(calls) ==
  /\ Len(calls) % 2 = 0
  /\ \A i \in 1..Len(calls) :
       calls[i].op = IF i % 2 = 1 THEN "start_stage" ELSE "end_stage"

\* the stages those pairs name, as end_run is to return them
PairedStages(calls) ==
  [i \in 1..(Len(calls) \div 2) |->
     [stage_name |-> calls[2 * i - 1].stage_name,
      status     |-> IF calls[2 * i].success THEN "success" ELSE "failed"]]

\* C18: after start_run, k start_stage / end_stage pairs and
\* end_run(success=True), the run that end_run returns has status 'success'
\* and its stages are those k stages in the order they were ended, each
\* 'success' or 'failed' as its end_stage call said.
C18_StagesInEndOrder ==
  ( /\ monLast.op = "end_run"
    /\ monLast.active
    /\ monLast.success
    /\ Paired(monLast.calls) )
  => /\ monLast.ret.status = "success"
     /\ monLast.ret.stages = PairedStages(monLast.calls)

C18_Witness ==
  /\ monLast.op = "end_run"
  /\ monLast.active
  /\ monLast.success
  /\ Paired(monLast.calls)
  /\ Len(monLast.calls) = 4
  /\ monLast.calls[1].stage_name # monLast.calls[3].stage_name
  /\ monLast.calls[2].success
  /\ ~monLast.calls[4].success
  /\ Len(monLast.ret.stages) = 2

\* C19: when a monitor.context() block is left, its run is ended exactly
\* once, no run is active any more, and get_history gives that run first,
\* with status 'success' when no exception left the body and 'failed' when
\* one did.
C19_ContextRunFirstInHistory ==
  [][ (ctx.state = "body" /\ ctx'.state = "exited")
      => /\ ctx'.ends = 1
         /\ monitor'.current_run = NoneValue
         /\ get_history(monitor', DefaultLimit) # <<>>
         /\ Head(get_history(monitor', DefaultLimit))
              = PipelineRun_to_dict(
                  [monitor.current_run EXCEPT
                     !.status = IF ctx'.raised THEN "failed" ELSE "success"]) ]_vars

\* C24: a call out of order is rejected and changes nothing: start_stage
\* with no active run raises RuntimeError and leaves current_run and
\* current_stage as they were; end_stage with no active stage and end_run
\* with no active run return None, append no stage and write no history
\* file.
C24_OutOfOrderRejected ==
  [][ /\ ( /\ staged' = staged + 1
           /\ monLast'.op = "start_stage"
           /\ monitor.current_run = NoneValue )
        => (monLast'.exc = "RuntimeError" /\ monitor' = monitor)
      /\ ( /\ staged' = staged + 1
           /\ monLast'.op = "end_stage"
           /\ monitor.current_stage = NoneValue )
        => (monLast'.ret = NoneValue /\ monitor' = monitor)
      /\ ( /\ staged' = staged
           /\ started' = started
           /\ monLast'.op = "end_run"
           /\ monitor.current_run = NoneValue )
        => (monLast'.ret = NoneValue /\ monitor' = monitor)
    ]_vars

\* start_stage was refused after a run that left a history file and a
\* stage that was never ended
C24_Witness ==
  /\ monLast.op = "start_stage"
  /\ monLast.exc = "RuntimeError"
  /\ monitor.current_run = NoneValue
  /\ monitor.current_stage # NoneValue
  /\ Len(monitor.history_dir) = 1

\* the files of dir that are no longer in dir2
Removed(dir, dir2) ==
  {dir[i] : i \in {j \in 1..Len(dir) :
                     \A k \in 1..Len(dir2) : dir2[k].name # dir[j].name}}

\* the step is an end_run of an active run that saves history: the end
\* of a context block entered on this monitor
SavingEndRun ==
  ctx.state = "body" /\ ctx'.state = "exited" /\ monitor.current_run # NoneValue

\* the files of the directory dir that belong to the monitor's pipeline
OwnFiles(m, dir) == Glob(dir, m.pipeline_name)

\* C25: after any end_run that saves history, with max_history >= 1, the
\* history files of that pipeline in history_dir are at most max_history,
\* the removed files are the least recently modified ones, and the run
\* that was just saved is retained.
C25_CleanupKeepsNewest ==
  [][ SavingEndRun =>
        /\ Len(OwnFiles(monitor, monitor'.history_dir)) <= monitor.max_history
        /\ \A r \in Removed(monitor.history_dir, monitor'.history_dir) :
             \A k \in 1..Len(monitor'.history_dir) :
               r.mtime <= monitor'.history_dir[k].mtime
        /\ \E k \in 1..Len(monitor'.history_dir) :
             /\ monitor'.history_dir[k].name
                  = RunFile(monitor.pipeline_name, monitor.current_run.run_id)
             /\ monitor'.history_dir[k].doc.run_id = monitor.current_run.run_id
    ]_vars

\* the step is an end_stage that ends a stage
EndsStage ==
  /\ staged' = staged + 1
  /\ monLast'.op = "end_stage"
  /\ monitor.current_stage # NoneValue

\* the stage that is active was started in the run that is active:
\* stageCalls holds the calls made since that run began
StartedInActiveRun ==
  /\ monitor.current_run # NoneValue
  /\ \E i \in 1..Len(stageCalls) :
       stageCalls[i] = [op |-> "start_stage",
                        stage_name |-> monitor.current_stage.stage_name]

\* C30: in any order of start_run, start_stage, end_stage and end_run on one
\* monitor, a stage that was started and is ended is recorded exactly once
\* in the stages of the run that was active when it started.
C30_StageRecordedInItsRun ==
  [][ EndsStage =>
        /\ StartedInActiveRun
        /\ monitor'.current_run.stages
             = Append(monitor.current_run.stages, monLast'.ret)
        /\ \A i \in 1..Len(monitor.current_run.stages) :
             monitor.current_run.stages[i].stage_name
               # monitor.current_stage.stage_name
    ]_vars

(***************************************************************************)
(* Claims about the notifier.                                              *)
(***************************************************************************)
Configured == { channels[i] : i \in 1..Len(channels) }

\* C20: notify returns one result entry for every configured channel, under
\* the channel's name, and tries every configured channel, also after a
\* channel before it has raised; when no channel fails the overall result
\* has success True.
C20_EveryChannelAttempted ==
  ntfLast.op = "notify"
  => /\ DOMAIN ntfLast.ret.channels = Configured
     /\ ntfLast.attempted = channels
     /\ (ntfLast.fails \cap Configured = {})
          => /\ ntfLast.ret.success
             /\ \A c \in Configured : ntfLast.ret.channels[c].success

C20_Witness ==
  /\ ntfLast.op = "notify"
  /\ channels = <<"file", "console">>
  /\ ntfLast.fails = {"file"}
  /\ ntfLast.attempted = <<"file", "console">>
  /\ ~ntfLast.ret.channels["file"].success
  /\ ntfLast.ret.channels["console"].success
  /\ ~ntfLast.ret.success

\* C29: the overall success that notify returns is True only if the result
\* of every configured channel has success True, whether the channel failed
\* by raising or by returning a result with success False.
C29_SuccessOnlyIfAllSucceed ==
  (ntfLast.op = "notify" /\ ntfLast.ret.success)
  => \A c \in Configured : ntfLast.ret.channels[c].success

(***************************************************************************)
(* Claims about the run of the DAG.                                        *)
(***************************************************************************)

\* the key the task's attempt computed, and whether a fault-free probe of
\* the store it started from finds an object under that key
KeyOf(t) == DagKey(dagLog[t].pre.files["data"])

ProbeFinds(t) ==
  /\ dagLog[t].pre.files["data"].st # "unreadable"
  /\ KeyOf(t) \in DOMAIN dagLog[t].pre.objects

Hit == ti["check_cache"] = "success" /\ ~xcom["check_cache"].go

Miss == ti["check_cache"] = "success" /\ xcom["check_cache"].go

\* C4: the check_cache task decides HIT (returns False) exactly when its
\* probe of the computed key returns true; a probe that finds nothing, is
\* refused, or raises, like a failing construction of the client or an
\* unreadable data file, gives MISS (returns True), and the task never fails
\* nor is retried.
C4_FailOpenDecision ==
  tries["check_cache"] > 0
  => /\ ti["check_cache"] = "success"
     /\ tries["check_cache"] = 1
     /\ ~xcom["check_cache"].go
          <=> (dagLog["check_cache"].f = "none" /\ ProbeFinds("check_cache"))

\* the connection broke during the probe of a key that is in the store, and
\* the task succeeded with MISS
C4_Witness ==
  /\ tries["check_cache"] > 0
  /\ dagLog["check_cache"].f = "head_object_conn"
  /\ ProbeFinds("check_cache")
  /\ Miss

\* C6: after HIT neither train_model nor save_to_cache is ever attempted;
\* save_to_cache is attempted only after MISS and a successful train_model;
\* a finished run that decided MISS has attempted train_model.
C6_HitSkipsMissTrains ==
  /\ Hit => tries["train_model"] = 0 /\ tries["save_to_cache"] = 0
  /\ tries["save_to_cache"] > 0 => Miss /\ ti["train_model"] = "success"
  /\ (Miss /\ \A t \in Tasks : Finished(t)) => tries["train_model"] > 0

\* a finished run that decided HIT: training and saving were skipped, the
\* consumer ran
C6_Witness ==
  /\ Hit
  /\ \A t \in Tasks : Finished(t)
  /\ ti["train_model"] = "skipped"
  /\ ti["save_to_cache"] = "skipped"
  /\ ti["use_cached_model"] = "success"

UcmHit ==
  /\ tries["use_cached_model"] > 0
  /\ dagLog["use_cached_model"].f = "none"
  /\ ProbeFinds("use_cached_model")

GcmHit ==
  /\ gcm.op = "get_cached_model"
  /\ gcm.f = "none"
  /\ gcm.pre.files["data"].st # "unreadable"
  /\ DagKey(gcm.pre.files["data"]) \in DOMAIN gcm.pre.objects

C8_StoreFailureFailsTask ==
  /\ ( /\ tries["save_to_cache"] > 0
       /\ dagLog["save_to_cache"].f \in {"upload_file", "put_object"} )
     => ti["save_to_cache"] # "success"
  /\ ( /\ tries["use_cached_model"] > 0
       /\ dagLog["use_cached_model"].f = "get_object"
       /\ ProbeFinds("use_cached_model") )
     => ti["use_cached_model"] # "success"

\* C21: a run that has finished, with no attempt of a task disturbed, has
\* executed generate_summary: after HIT the summary has source 'cached' and
\* the metrics use_cached_model read, after MISS and a successful
\* save_to_cache it has source 'trained'.
C21_SummaryAlwaysProduced ==
  ( /\ \A t \in Tasks : Finished(t) /\ dagLog[t].f = "none"
    /\ Hit \/ (Miss /\ ti["save_to_cache"] = "success") )
  => /\ ti["generate_summary"] = "success"
     /\ Hit => /\ xcom["generate_summary"].source = "cached"
               /\ xcom["generate_summary"].metrics = xcom["use_cached_model"].metrics
     /\ Miss => xcom["generate_summary"].source = "trained"

(***************************************************************************)
(* Claims about the retry decorator.                                       *)
(***************************************************************************)
\* the invocations before the i-th all raised an exception of the tuple
AllCaughtBefore(func, exceptions, i) ==
  \A j \in 1..(i - 1) :
    func[j].raises # "none" /\ Caught(func[j].raises, exceptions)

\* the wrapper's outcome is what the claim says for these inputs
RetryContract(max_retries, exceptions, func, r) ==
  /\ r.invoked >= 1
  /\ r.invoked <= max_retries
  /\ \A i \in 1..max_retries :
       AllCaughtBefore(func, exceptions, i) =>
         /\ func[i].raises = "none" =>
              r.exc.type = "none" /\ r.ret = func[i].value /\ r.invoked = i
         /\ (func[i].raises # "none" /\ ~Caught(func[i].raises, exceptions)) =>
              r.exc = [type |-> func[i].raises, at |-> i] /\ r.invoked = i
  /\ AllCaughtBefore(func, exceptions, max_retries + 1) =>
       /\ r.invoked = max_retries
       /\ r.exc = [type |-> func[r.invoked].raises, at |-> r.invoked]

\* C22: the function wrapped by retry_with_backoff(max_retries=n,
\* exceptions=E) is invoked at least once and at most n times; the wrapper
\* returns the result of the first invocation that does not raise, raises
\* the last caught exception again after n failed invocations, and lets an
\* exception outside E through at once.
C22_RetryContract ==
  rtLast.op = "wrapper" =>
    RetryContract(rtLast.max_retries, rtLast.exceptions, rtLast.func, rtLast.r)

(***************************************************************************)
(* Claims about the health checker.                                        *)
(***************************************************************************)
\* the i-th result is the one of the i-th checked service
ResultOf(rs, i) == rs[i].service \in {ServiceNames[i], ConfigName(ServiceNames[i])}

\* C23: the overall_status of get_summary is "unhealthy" if any result is
\* unhealthy, else "degraded" if any is degraded, else "healthy"; the three
\* counts add up to the total; after check_all there is exactly one result
\* for each of mlflow, minio, airflow and dvc, also when a check raises.
C23_SummaryAndResults ==
  /\ hcLast.op = "get_summary" =>
       /\ hcLast.ret.overall_status =
            IF \E i \in 1..Len(results) : results[i].status = "unhealthy"
              THEN "unhealthy"
            ELSE IF \E i \in 1..Len(results) : results[i].status = "degraded"
              THEN "degraded"
            ELSE "healthy"
       /\ hcLast.ret.healthy + hcLast.ret.degraded + hcLast.ret.unhealthy
            = hcLast.ret.total
       /\ hcLast.ret.total = Len(results)
       /\ hcLast.ret.services = results
  /\ hcLast.op # "none" =>
       /\ Len(results) = Len(ServiceNames)
       /\ \A i \in 1..Len(ServiceNames) : ResultOf(results, i)

\* a check_all in which the mlflow check raised and the others did not
C23_Witness ==
  /\ hcLast.op = "check_all"
  /\ hcLast.raised = {"mlflow"}
  /\ results[1] = HealthCheckResult("mlflow", "unhealthy", "check error")
  /\ results[2].status = "degraded"

(***************************************************************************)
(* Claims about monitors that share a history directory.                   *)
(***************************************************************************)
\* C28: when monitors of different pipelines write into one history_dir,
\* the cleanup done for pipeline P deletes only files of P, whatever the
\* names of the pipelines are.
C28_CleanupOwnFilesOnly ==
  [][ \A f \in Removed(history_dir, history_dir') :
        f.doc.pipeline_name = monitors[shLast'.by].pipeline_name ]_vars

====
